---- MODULE Spec2Model ----
(***************************************************************************)
(* Model of the tensat front end (src/src/input.rs) and of its ILP        *)
(* extraction support (src/src/optimize.rs).                               *)
(*                                                                         *)
(* Ids (RecExpr indices, e-class ids, ILP indices m and i) are 0-based as  *)
(* in the source; At(s, i) reads element i of a vector.                    *)
(***************************************************************************)
EXTENDS Integers, Sequences, FiniteSets, TLC

VARIABLES
    pc,              \* position of the driver: build / sat / extract / spawn / wait / done / abort
    abort,           \* "" or the panic that ended the run
    rec_expr,        \* CppGraphConverter.rec_expr
    scalar_map,      \* CppGraphConverter.scalar_map
    tensorinfo_map,  \* CppGraphConverter.tensorinfo_map
    egraph,          \* runner.egraph: [uf, classes]
    blacklist_nodes, \* egraph.analysis.blacklist_nodes
    root,            \* runner.roots[0]
    n_rewrites,      \* number of e-graph changes made by the rewrite rules
    ilp,             \* the tuple returned by prep_ilp_data
    solved_x,        \* SolvedResults.solved_x read from tmp/solved.json
    node_picked,     \* extract_by_ilp: HashMap<Id, Mdl>
    dup_log,         \* "Duplicate node in eclass" lines printed by extract_by_ilp
    added_memo,      \* construct_best_rec: HashMap<Id, Id>
    best,            \* the RecExpr built by construct_best_rec
    res,             \* the Vec<ffi::Node> built by convert_to_node
    cost_enode,      \* get_self_cost called on its own: the e-node passed
    cost_out,        \* get_self_cost called on its own: what it returned
    parsed,          \* dim_from_name_string called on an input's name: the handle, the result
    iterations,      \* runner.iterations.len()
    elapsed,         \* seconds since the runner started
    stop_reason,     \* runner.stop_reason: "None" or the reason
    use_multi,       \* optimize: whether to use multi patterns
    multi_runs,      \* number of calls of multi_patterns.run_one
    request_file,    \* contents of ./tmp/ilp_data.json
    child,           \* the extractor subprocess: none / running / success / failure
    solved_file,     \* contents of ./tmp/solved.json
    no_cycle,        \* optimize: is our graph by definition acyclic?
    filter_after,    \* optimize: vanilla filtering or efficient filtering
    cycle_removals,  \* number of calls of remove_cycle_by_order
    solved_by,       \* who wrote what ./tmp/solved.json holds: none, earlier (a call before this one), child
    operand,         \* the analysis shape of the operand the cost model is pricing
    oracle_dims      \* the dimension list last handed to the oracle, and the function that made it

vars == <<pc, abort, rec_expr, scalar_map, tensorinfo_map, egraph, blacklist_nodes,
          root, n_rewrites, ilp, solved_x, node_picked, dup_log, added_memo, best, res,
          cost_enode, cost_out, parsed, iterations, elapsed, stop_reason, use_multi,
          multi_runs, request_file, child, solved_file,
          no_cycle, filter_after, cycle_removals,
          solved_by,
          operand, oracle_dims>>

RunnerVars == <<iterations, elapsed, stop_reason, use_multi, multi_runs>>

SolverVars == <<request_file, child, solved_file>>

OracleVars == <<operand, oracle_dims>>

TmpVars == <<solved_by>>

FilterVars == <<no_cycle, filter_after, cycle_removals>>

(***************************************************************************)
(* Bounds                                                                  *)
(***************************************************************************)
MaxCalls == 3      \* most builder calls before optimize
MaxIds == 5        \* most e-class ids the e-graph may allocate
MaxRewrites == 1   \* most e-graph changes (add, union) made by rewrite rules
MaxBlacklist == 1  \* most nodes the cycle filter may blacklist
MaxOracle == 2     \* the oracle prices an op in 0..MaxOracle

MAX_DIM == 8

(***************************************************************************)
(* Vectors and maps                                                        *)
(***************************************************************************)
At(s, i) == s[i + 1]

Range(s) == {s[k] : k \in 1..Len(s)}

Indices(s) == 0..(Len(s) - 1)

Min(S) == CHOOSE x \in S : \A y \in S : x <= y

Max(S) == CHOOSE x \in S : \A y \in S : x >= y

EmptyMap == [x \in {} |-> 0]

MapInsert(map, k, v) == [x \in (DOMAIN map) \cup {k} |-> IF x = k THEN v ELSE map[x]]

(***************************************************************************)
(* Term language: an e-node is an operator, its children and, for Num and  *)
(* Var, its payload.                                                       *)
(***************************************************************************)
Mdl(op, ch, val) == [op |-> op, ch |-> ch, val |-> val]

map_children(node, f(_)) == [node EXCEPT !.ch = [k \in 1..Len(node.ch) |-> f(node.ch[k])]]

\* shape_from_dim, the dims beyond MAX_DIM dropped after the message is printed
shape_from_dim_Truncate(dims) ==
    [shape |-> [k \in 1..MAX_DIM |-> IF k <= Len(dims) THEN dims[k] ELSE 0],
     n_dim |-> Len(dims),
     panic |-> ""]

\* [0; MAX_DIM] overwritten with dims; with more than MAX_DIM dims the message
\* is printed and the store to shape[MAX_DIM] panics
shape_from_dim(dims) ==
    [shape |-> [k \in 1..MAX_DIM |-> IF k <= Len(dims) THEN dims[k] ELSE 0],
     n_dim |-> Len(dims),
     panic |-> IF Len(dims) > MAX_DIM THEN "index out of bounds: shape" ELSE ""]

(***************************************************************************)
(* RecExpr                                                                 *)
(***************************************************************************)
\* RecExpr::add, the node put in front of the others
RecExprAdd_Front(expr, node) == <<node>> \o expr

\* RecExpr::add: the node is pushed and its index is its id
RecExprAdd(expr, node) == Append(expr, node)

(***************************************************************************)
(* Builder (CppGraphConverter)                                             *)
(***************************************************************************)
ArgNums == {0}             \* block argument numbers offered to input()

InputDims == {<<2>>}       \* dims offered to input()

Num(n) == Mdl("Num", <<>>, <<n>>)

\* Strings are sequences of character codes: '0'..'9' are 48..57, '-' is 45,
\* '+' is 43, '@' is 64, '_' is 95.
RECURSIVE Digits(_)
Digits(n) == IF n < 10 THEN <<48 + n>> ELSE Digits(n \div 10) \o <<48 + (n % 10)>>

\* i32::to_string
to_string(n) == IF n < 0 THEN <<45>> \o Digits(0 - n) ELSE Digits(n)

\* dims.iter().join(sep)
RECURSIVE join(_, _)
join(strs, sep) ==
    IF Len(strs) = 0 THEN <<>>
    ELSE IF Len(strs) = 1 THEN strs[1]
    ELSE strs[1] \o sep \o join(Tail(strs), sep)

\* str::split on a one-character separator: the pieces between separators,
\* the empty string giving one empty piece
RECURSIVE split(_, _)
split(str, sep) ==
    IF \A k \in 1..Len(str) : str[k] # sep THEN <<str>>
    ELSE LET k == Min({j \in 1..Len(str) : str[j] = sep})
         IN <<SubSeq(str, 1, k - 1)>> \o split(SubSeq(str, k + 1, Len(str)), sep)

RECURSIVE DigitsValue(_)
DigitsValue(str) ==
    IF str = <<>> THEN 0 ELSE 10 * DigitsValue(SubSeq(str, 1, Len(str) - 1)) + (str[Len(str)] - 48)

\* str::parse::<i32>: an optional sign and at least one digit, nothing else
parse_i32(str) ==
    LET body == IF str # <<>> /\ str[1] \in {43, 45} THEN Tail(str) ELSE str
    IN IF body = <<>> \/ \E k \in 1..Len(body) : body[k] \notin 48..57
       THEN [ok |-> FALSE, value |-> 0]
       ELSE [ok |-> TRUE,
             value |-> IF str[1] = 45 THEN 0 - DigitsValue(body) ELSE DigitsValue(body)]

\* format!("input_{}", block_arg_number) + "@" + &dims.iter().join("_")
input_name(block_arg_number, dims) ==
    <<105, 110, 112, 117, 116, 95>> \o to_string(block_arg_number) \o <<64>>
        \o join([k \in 1..Len(dims) |-> to_string(dims[k])], <<95>>)

\* the symbol of an input operand
Var(block_arg_number, dims) == Mdl("Var", <<>>, input_name(block_arg_number, dims))

TensorInfo(id, shape, n_dim) == [id |-> id, shape |-> shape, n_dim |-> n_dim]

Handles == {tensorinfo_map[k] : k \in DOMAIN tensorinfo_map}

add_or_get_val(expr, smap, val) ==
    IF val \in DOMAIN smap
    THEN [rec_expr |-> expr, scalar_map |-> smap, id |-> smap[val]]
    ELSE [rec_expr |-> RecExprAdd(expr, Num(val)),
          scalar_map |-> MapInsert(smap, val, Len(expr)),
          id |-> Len(expr)]

vec_node(expr, seq) ==
    LET withNums == expr \o [k \in 1..Len(seq) |-> Num(seq[k])]
        vec == [k \in 1..Len(seq) |-> Len(expr) + k - 1]
    IN [rec_expr |-> RecExprAdd(withNums, Mdl("Vec", vec, <<>>)), id |-> Len(withNums)]

\* a builder call panics: what it added to rec_expr stays, no handle is made
Panicked(expr, smap, what) ==
    /\ pc' = "abort"
    /\ abort' = what
    /\ rec_expr' = expr
    /\ scalar_map' = smap
    /\ UNCHANGED <<tensorinfo_map, egraph, blacklist_nodes, root, n_rewrites, ilp, solved_x,
                   node_picked, dup_log, added_memo, best, res, cost_enode, cost_out, parsed>>
    /\ UNCHANGED RunnerVars
    /\ UNCHANGED SolverVars
    /\ UNCHANGED FilterVars
    /\ UNCHANGED TmpVars
    /\ UNCHANGED OracleVars

\* every builder call ends by recording the handle it returns
Returned(expr, smap, new_node, shape, n_dim) ==
    /\ Cardinality(DOMAIN tensorinfo_map) < MaxCalls
    /\ rec_expr' = RecExprAdd(expr, new_node)
    /\ scalar_map' = smap
    /\ tensorinfo_map' = MapInsert(tensorinfo_map, Len(expr), TensorInfo(Len(expr), shape, n_dim))
    /\ UNCHANGED <<pc, abort, egraph, blacklist_nodes, root, n_rewrites, ilp, solved_x,
                   node_picked, dup_log, added_memo, best, res, cost_enode, cost_out, parsed>>
    /\ UNCHANGED RunnerVars
    /\ UNCHANGED SolverVars
    /\ UNCHANGED FilterVars
    /\ UNCHANGED TmpVars
    /\ UNCHANGED OracleVars

input(block_arg_number, dims) ==
    /\ pc = "build"
    /\ LET name_id == Len(rec_expr)
           r == add_or_get_val(RecExprAdd(rec_expr, Var(block_arg_number, dims)),
                               scalar_map, block_arg_number)
           sh == shape_from_dim(dims)
       IN IF sh.panic # ""
          THEN Panicked(r.rec_expr, r.scalar_map, sh.panic)
          ELSE Returned(r.rec_expr, r.scalar_map, Mdl("Input", <<name_id, r.id>>, <<>>),
                        sh.shape, sh.n_dim)

reshape_op(inpt, shape) ==
    /\ pc = "build"
    /\ LET v == vec_node(rec_expr, shape)
           sh == shape_from_dim(shape)
       IN IF sh.panic # ""
          THEN Panicked(v.rec_expr, scalar_map, sh.panic)
          ELSE Returned(v.rec_expr, scalar_map, Mdl("ReshapeOp", <<inpt.id, v.id>>, <<>>),
                        sh.shape, sh.n_dim)

\* the shape loop of pad_op runs over all MAX_DIM entries of inpt.shape and
\* indexes the three padding slices with the same i
pad_shape(inpt, edge_padding_low, edge_padding_high, interior_padding) ==
    [shape |-> [i \in 1..MAX_DIM |->
                   IF i <= Min({Len(edge_padding_low), Len(edge_padding_high),
                                Len(interior_padding)})
                   THEN inpt.shape[i] + edge_padding_low[i] + edge_padding_high[i]
                           + (Max({inpt.shape[i], 1}) - 1) * interior_padding[i]
                   ELSE 0],
     panic |-> IF Min({Len(edge_padding_low), Len(edge_padding_high),
                       Len(interior_padding)}) < MAX_DIM
               THEN "index out of bounds: padding" ELSE ""]

pad_op(inpt, padding_value, edge_padding_low, edge_padding_high, interior_padding) ==
    /\ pc = "build"
    /\ LET lo == vec_node(rec_expr, edge_padding_low)
           hi == vec_node(lo.rec_expr, edge_padding_high)
           int == vec_node(hi.rec_expr, interior_padding)
           pv == add_or_get_val(int.rec_expr, scalar_map, padding_value)
           new_shape == pad_shape(inpt, edge_padding_low, edge_padding_high, interior_padding)
       IN IF new_shape.panic # ""
          THEN Panicked(pv.rec_expr, pv.scalar_map, new_shape.panic)
          ELSE Returned(pv.rec_expr, pv.scalar_map,
                        Mdl("PadOp", <<inpt.id, pv.id, lo.id, hi.id, int.id>>, <<>>),
                        new_shape.shape, inpt.n_dim)

concatenate_op(inputs, dimension) ==
    /\ pc = "build"
    /\ LET d1 == add_or_get_val(rec_expr, scalar_map, dimension)
           inputs_id == Len(d1.rec_expr)
           withVec == RecExprAdd(d1.rec_expr,
                                 Mdl("Vec", [k \in 1..Len(inputs) |-> inputs[k].id], <<>>))
           d2 == add_or_get_val(withVec, d1.scalar_map, dimension)
       IN Returned(d2.rec_expr, d2.scalar_map,
                   Mdl("ConcatenateOp", <<inputs_id, d2.id>>, <<>>),
                   inputs[1].shape, inputs[1].n_dim)

constant_op ==
    /\ pc = "build"
    /\ Returned(rec_expr, scalar_map, Mdl("ConstantOp", <<>>, <<>>), [k \in 1..MAX_DIM |-> 1], 1)

neg_op(inpt) ==
    /\ pc = "build"
    /\ Returned(rec_expr, scalar_map, Mdl("NegOp", <<inpt.id>>, <<>>), inpt.shape, inpt.n_dim)

\* transpose_shape, the entries copied in place
transpose_shape_Identity(inpt, permutation) ==
    [shape |-> inpt.shape, panic |-> ""]

\* the shape loop of transpose_op: shape[i] = inpt.shape[perm_i] for every
\* entry of permutation, the rest staying 0
transpose_shape(inpt, permutation) ==
    [shape |-> [i \in 1..MAX_DIM |->
                   IF i <= Len(permutation) /\ permutation[i] \in 0..(MAX_DIM - 1)
                   THEN inpt.shape[permutation[i] + 1]
                   ELSE 0],
     panic |-> IF \E i \in 1..Len(permutation) :
                     i > MAX_DIM \/ permutation[i] \notin 0..(MAX_DIM - 1)
               THEN "index out of bounds: shape"
               ELSE ""]

transpose_op(inpt, permutation) ==
    /\ pc = "build"
    /\ LET v == vec_node(rec_expr, permutation)
           sh == transpose_shape(inpt, permutation)
       IN IF sh.panic # ""
          THEN Panicked(v.rec_expr, scalar_map, sh.panic)
          ELSE Returned(v.rec_expr, scalar_map, Mdl("TransposeOp", <<inpt.id, v.id>>, <<>>),
                        sh.shape, inpt.n_dim)

\* dot_general_op: six Vec operands are made one after the other, then the
\* node; the handle's shape is the given one
dot_general_op(lhs, rhs, lhs_batching_dimensions, rhs_batching_dimensions, lhs_contracting_dimensions, rhs_contracting_dimensions, precision_config, shape) ==
    /\ pc = "build"
    /\ LET v1 == vec_node(rec_expr, lhs_batching_dimensions)
           v2 == vec_node(v1.rec_expr, rhs_batching_dimensions)
           v3 == vec_node(v2.rec_expr, lhs_contracting_dimensions)
           v4 == vec_node(v3.rec_expr, rhs_contracting_dimensions)
           v5 == vec_node(v4.rec_expr, precision_config)
           v6 == vec_node(v5.rec_expr, shape)
           sh == shape_from_dim(shape)
       IN IF sh.panic # ""
          THEN Panicked(v6.rec_expr, scalar_map, sh.panic)
          ELSE Returned(v6.rec_expr, scalar_map,
                        Mdl("DotGeneralOp", <<lhs.id, rhs.id, v1.id, v2.id, v3.id, v4.id,
                                              v5.id, v6.id>>, <<>>),
                        sh.shape, sh.n_dim)

convert_op(inpt, output_type) ==
    /\ pc = "build"
    /\ LET v == add_or_get_val(rec_expr, scalar_map, output_type)
       IN Returned(v.rec_expr, v.scalar_map, Mdl("ConvertOp", <<inpt.id, v.id>>, <<>>),
                   inpt.shape, inpt.n_dim)

add_op(lhs, rhs) ==
    /\ pc = "build"
    /\ Returned(rec_expr, scalar_map, Mdl("AddOp", <<lhs.id, rhs.id>>, <<>>), lhs.shape, lhs.n_dim)

(***************************************************************************)
(* E-graph (egg::EGraph as the front end uses it)                          *)
(***************************************************************************)
RECURSIVE Find(_, _)
Find(uf, id) == IF At(uf, id) = id THEN id ELSE Find(uf, At(uf, id))

Canon(uf, node) == map_children(node, LAMBDA c : Find(uf, c))

Roots(eg) == {id \in Indices(eg.uf) : At(eg.uf, id) = id}

\* egraph.classes(): the stored classes, by id
Classes(eg) == {id \in Indices(eg.classes) : At(eg.classes, id) # <<>>}

number_of_classes(eg) == Cardinality(Classes(eg))

RECURSIVE SumLen(_, _)
SumLen(ss, k) == IF k = 0 THEN 0 ELSE Len(ss[k]) + SumLen(ss, k - 1)

total_size(eg) == SumLen(eg.classes, Len(eg.classes))

OpsIn(eg) == {n.op : n \in UNION {Range(eg.classes[k]) : k \in 1..Len(eg.classes)}}

EmptyEGraph == [uf |-> <<>>, classes |-> <<>>, dirty |-> FALSE]

\* egraph.add: hashcons lookup of the canonical node, else a fresh class
EGraphAdd(eg, node) ==
    LET n == Canon(eg.uf, node)
        hits == {r \in Classes(eg) :
                    \E k \in 1..Len(At(eg.classes, r)) :
                        Canon(eg.uf, At(eg.classes, r)[k]) = n}
    IN IF hits # {}
       THEN [eg |-> eg, id |-> Min(hits)]
       ELSE [eg |-> [eg EXCEPT !.uf = Append(@, Len(eg.uf)),
                               !.classes = Append(@, <<n>>)],
             id |-> Len(eg.uf)]

\* egraph.union: the class of b is merged into the class of a
EGraphUnion(eg, a, b) ==
    LET ra == Find(eg.uf, a)
        rb == Find(eg.uf, b)
    IN IF ra = rb THEN eg
       ELSE [uf |-> [eg.uf EXCEPT ![rb + 1] = ra],
             classes |-> [eg.classes EXCEPT ![ra + 1] = @ \o At(eg.classes, rb),
                                            ![rb + 1] = <<>>],
             dirty |-> TRUE]

DedupSeq(s) ==
    LET F[k \in 0..Len(s)] ==
            IF k = 0 THEN <<>>
            ELSE IF s[k] \in Range(F[k - 1]) THEN F[k - 1] ELSE Append(F[k - 1], s[k])
    IN F[Len(s)]

\* egraph.rebuild, the congruent classes left apart
EGraphRebuild_NoMerge(eg) ==
    [eg EXCEPT !.classes = [k \in 1..Len(eg.classes) |->
                               DedupSeq([j \in 1..Len(eg.classes[k]) |->
                                            Canon(eg.uf, eg.classes[k][j])])],
               !.dirty = FALSE]

\* egraph.rebuild: canonicalize and dedup every class, union congruent
\* classes, repeat to the fixed point
RECURSIVE EGraphRebuild(_)
EGraphRebuild(eg) ==
    LET canon == [k \in 1..Len(eg.classes) |->
                     DedupSeq([j \in 1..Len(eg.classes[k]) |-> Canon(eg.uf, eg.classes[k][j])])]
        clash == {p \in Classes(eg) \X Classes(eg) :
                     /\ p[1] < p[2]
                     /\ Range(At(canon, p[1])) \cap Range(At(canon, p[2])) # {}}
        eg1 == [eg EXCEPT !.classes = canon]
    IN IF clash = {}
       THEN [eg1 EXCEPT !.dirty = FALSE]
       ELSE LET p == CHOOSE q \in clash : TRUE
            IN EGraphRebuild(EGraphUnion(eg1, p[1], p[2]))

\* egraph.add_expr: add the nodes of expr in order, children mapped to the
\* classes of the nodes they point to; yields the class of the last node
RECURSIVE AddExprFrom(_, _, _, _)
AddExprFrom(eg, expr, k, ids) ==
    IF k > Len(expr) THEN [eg |-> eg, id |-> ids[Len(ids)]]
    ELSE LET r == EGraphAdd(eg, map_children(expr[k], LAMBDA c : At(ids, c)))
         IN AddExprFrom(r.eg, expr, k + 1, Append(ids, r.id))

add_expr(eg, expr) == AddExprFrom(eg, expr, 1, <<>>)

(***************************************************************************)
(* Cost model (CostModel::get_self_cost)                                   *)
(***************************************************************************)
\* x as i64: an i32 keeps its value
as_i64(x) == x

\* .iter().filter(|&x| *x != 0).map(|&x| x as i64).collect(): the non-zero
\* entries of the array, in order
dims_of(shape) ==
    LET NonZero(x) == x # 0
    IN [k \in 1..Len(SelectSeq(shape, NonZero)) |-> as_i64(SelectSeq(shape, NonZero)[k])]

\* CostModel::tensor_data_to_shape_vec on tensor_data.shapes[0]
tensor_data_to_shape_vec(tensor_data) == dims_of(tensor_data.shape)

\* dim_to_i64_vec of get_self_cost on operand_dims.shapes[0]
dim_to_i64_vec(tensor_data) == dims_of(tensor_data.shape)

\* ZeroCostOps, the Index arm left out
ZeroCostOps_NoIndex == {"Num", "Var", "Input", "Vec", "BlackBox", "ReturnOp",
                        "CompareOp", "BroadcastInDimOp", "ConvertOp", "ReduceOp",
                        "GatherOp", "SelectOp"}

ZeroCostOps == {"Num", "Var", "Input", "Vec", "BlackBox", "Index", "ReturnOp",
                "CompareOp", "BroadcastInDimOp", "ConvertOp", "ReduceOp",
                "GatherOp", "SelectOp"}

\* the ops priced by cpp_cost_model.get_cost
OracleOps == {"ReshapeOp", "DotGeneralOp", "ConcatenateOp", "SliceOp", "TransposeOp",
              "MulOp", "AddOp", "DivOp", "SubtractOp", "MinOp", "MaxOp",
              "NegOp", "TanhOp", "ExpOp"}

\* the answers the oracle may give for the ops it is asked about: an
\* unsigned cost per op kind
Oracles(ops) == [ops \cap OracleOps -> 0..MaxOracle]

Priced(c) == [panic |-> "", cost |-> c]

NoCost == [panic |-> "not called", cost |-> 0]

\* shape_from_dim of the cost model: more than MAX_DIM dims is a panic
cost_shape_from_dim(dims) ==
    [shape |-> [k \in 1..MAX_DIM |-> IF k <= Len(dims) THEN dims[k] ELSE 0],
     n_dim |-> Len(dims),
     panic |-> IF Len(dims) > MAX_DIM THEN "Op shape exceeds MAX_DIM!" ELSE ""]

\* the closure dim_from_name_string of get_self_cost
dim_from_name_string(name) ==
    LET name_vec == split(name, 64)
        pieces == split(name_vec[2], 95)
        dims == [k \in 1..Len(pieces) |-> parse_i32(pieces[k])]
    IN IF Len(name_vec) # 2
       THEN [shape |-> <<>>, n_dim |-> 0, panic |-> "assert: name_vec.len() == 2"]
       ELSE IF \E k \in 1..Len(dims) : ~dims[k].ok
       THEN [shape |-> <<>>, n_dim |-> 0, panic |-> "unwrap: ParseIntError"]
       ELSE cost_shape_from_dim([k \in 1..Len(dims) |-> dims[k].value])

NoParse == [handle |-> 0, out |-> [shape |-> <<>>, n_dim |-> 0, panic |-> "not called"]]

get_self_cost(oracle, enode) ==
    CASE enode.op \in ZeroCostOps -> Priced(0)
      [] enode.op \in OracleOps -> Priced(oracle[enode.op])
      [] enode.op = "PadOp" -> Priced(100)
      [] enode.op = "IotaOp" -> Priced(20)
      [] enode.op = "DynamicUpdateSliceOp" -> Priced(3)
      [] enode.op = "DynamicSliceOp" -> Priced(4)
      [] enode.op = "ScatterOp" -> Priced(6)
      [] OTHER -> [panic |-> "Op unimplemented", cost |-> 0]

(***************************************************************************)
(* prep_ilp_data                                                           *)
(***************************************************************************)
RECURSIVE SortedSeq(_)
SortedSeq(S) == IF S = {} THEN <<>> ELSE <<Min(S)>> \o SortedSeq(S \ {Min(S)})

\* the order in which egraph.classes() yields the classes
ClassSeq(eg) == SortedSeq(Classes(eg))

\* M_id_map, the position in the iteration recorded in place of the class id
M_id_map_Index(eg) ==
    LET cs == ClassSeq(eg) IN [k \in 1..Len(cs) |-> k - 1]

M_id_map(eg) ==
    LET cs == ClassSeq(eg) IN [k \in 1..Len(cs) |-> Find(eg.uf, cs[k])]

\* collecting (id, index) pairs into a HashMap: a later pair replaces an earlier one
Id_m_map(m_id_map) ==
    [id \in Range(m_id_map) |-> Max({i \in Indices(m_id_map) : At(m_id_map, i) = id})]

\* the (class, node) pairs the two nested loops visit, in order
RECURSIVE ClassNodePairs(_, _, _)
ClassNodePairs(eg, cs, k) ==
    IF k > Len(cs) THEN <<>>
    ELSE [j \in 1..Len(At(eg.classes, cs[k])) |->
             [class |-> cs[k], node |-> At(eg.classes, cs[k])[j]]]
         \o ClassNodePairs(eg, cs, k + 1)

\* BlacklistPush, the index taken after it was incremented
BlacklistPush_Late(blacklist_i, bl, i, node) ==
    IF node \in bl THEN Append(blacklist_i, i + 1) ELSE blacklist_i

\* blacklist_i after the node with index i was looked up in blacklist_nodes
BlacklistPush(blacklist_i, bl, i, node) ==
    IF node \in bl THEN Append(blacklist_i, i) ELSE blacklist_i

\* ChildIndices, the class ids pushed in place of the class indices
ChildIndices_ClassId(eg, id_m_map, node) ==
    [k \in 1..Len(node.ch) |-> Find(eg.uf, node.ch[k])]

\* h_i entry of a node: the class index of each child
ChildIndices(eg, id_m_map, node) ==
    [k \in 1..Len(node.ch) |-> id_m_map[Find(eg.uf, node.ch[k])]]

\* GPush, the class id pushed in place of the class index
GPush_ClassId(g_i, m, cid) == Append(g_i, cid)

\* g_i after the node of the class with id cid and index m was visited
GPush(g_i, m, cid) == Append(g_i, m)

\* one pass of the inner loop body for node index i = Len(i_to_nodes)
PrepNode(acc, eg, bl, id_m_map, oracle, class, node) ==
    LET i == Len(acc.i_to_nodes)
        cid == Find(eg.uf, class)
        cost == get_self_cost(oracle, node)
    IN IF acc.panic # "" THEN acc
       ELSE IF cid \notin DOMAIN id_m_map
       THEN [acc EXCEPT !.panic = "unwrap: class not in id_m_map"]
       ELSE IF \E k \in 1..Len(node.ch) : Find(eg.uf, node.ch[k]) \notin DOMAIN id_m_map
       THEN [acc EXCEPT !.panic = "unwrap: child not in id_m_map"]
       ELSE IF cost.panic # "" THEN [acc EXCEPT !.panic = cost.panic]
       ELSE LET m == id_m_map[cid]
            IN [acc EXCEPT !.i_to_nodes = Append(@, node),
                           !.blacklist_i = BlacklistPush(@, bl, i, node),
                           !.e_m[m + 1] = Append(@, i),
                           !.h_i = Append(@, ChildIndices(eg, id_m_map, node)),
                           !.cost_i = Append(@, cost.cost),
                           !.g_i = GPush(@, m, cid)]

RECURSIVE PrepLoop(_, _, _, _, _, _, _)
PrepLoop(acc, eg, bl, id_m_map, oracle, pairs, k) ==
    IF k > Len(pairs) THEN acc
    ELSE PrepLoop(PrepNode(acc, eg, bl, id_m_map, oracle, pairs[k].class, pairs[k].node),
                  eg, bl, id_m_map, oracle, pairs, k + 1)

\* RootKey, the root looked up as it was passed in
RootKey_NoFind(eg, r) == r

\* id_m_map.get(&egraph.find(root)): the key looked up
RootKey(eg, r) == Find(eg.uf, r)

prep_ilp_data(eg, r, bl, oracle) ==
    LET m_id_map == M_id_map(eg)
        id_m_map == Id_m_map(m_id_map)
        num_classes == number_of_classes(eg)
        acc0 == [panic |-> IF Len(m_id_map) = num_classes THEN "" ELSE "assert: m_id_map.len()",
                 m_id_map |-> m_id_map,
                 e_m |-> [k \in 1..num_classes |-> <<>>],
                 h_i |-> <<>>, cost_i |-> <<>>, g_i |-> <<>>, root_m |-> 0,
                 i_to_nodes |-> <<>>, blacklist_i |-> <<>>]
        acc == PrepLoop(acc0, eg, bl, id_m_map, oracle, ClassNodePairs(eg, ClassSeq(eg), 1), 1)
    IN IF acc.panic # "" THEN acc
       ELSE IF RootKey(eg, r) \notin DOMAIN id_m_map
       THEN [acc EXCEPT !.panic = "unwrap: root not in id_m_map"]
       ELSE [acc EXCEPT !.root_m = id_m_map[RootKey(eg, r)]]

NoIlp == [panic |-> "", m_id_map |-> <<>>, e_m |-> <<>>, h_i |-> <<>>, cost_i |-> <<>>,
          g_i |-> <<>>, root_m |-> 0, i_to_nodes |-> <<>>, blacklist_i |-> <<>>]

(***************************************************************************)
(* extract_by_ilp: reading the picks, construct_best_rec                   *)
(***************************************************************************)
\* PickStep, a later pick of a class replacing the earlier one
PickStep_KeepLast(acc, eclass_id, node) ==
    IF eclass_id \in DOMAIN acc.node_picked
    THEN [acc EXCEPT !.dup_log = Append(@, [kept |-> acc.node_picked[eclass_id],
                                            dropped |-> node]),
                     !.node_picked = MapInsert(@, eclass_id, node)]
    ELSE [acc EXCEPT !.node_picked = MapInsert(@, eclass_id, node)]

\* the loop body for an index i with x_i = 1
PickStep(acc, eclass_id, node) ==
    IF eclass_id \in DOMAIN acc.node_picked
    THEN [acc EXCEPT !.dup_log = Append(@, [kept |-> acc.node_picked[eclass_id],
                                            dropped |-> node])]
    ELSE [acc EXCEPT !.node_picked = MapInsert(@, eclass_id, node)]

RECURSIVE PickLoop(_, _, _, _)
PickLoop(acc, data, x, i) ==
    IF i >= Len(x) THEN acc
    ELSE IF At(x, i) # 1 THEN PickLoop(acc, data, x, i + 1)
    ELSE PickLoop(PickStep(acc, At(data.m_id_map, At(data.g_i, i)), At(data.i_to_nodes, i)),
                  data, x, i + 1)

PickNodes(data, x) == PickLoop([node_picked |-> EmptyMap, dup_log |-> <<>>], data, x, 0)

\* Construction state: the memo, the expression, the id returned by the last
\* call, and the panic that ended the construction, if any.  path holds the
\* classes whose construction is in progress: coming back to one of them
\* before it is memoized repeats the same calls without end, until the stack
\* is exhausted.
RECURSIVE construct_best_rec(_, _, _, _, _)
RECURSIVE ConstructChildren(_, _, _, _, _, _, _)

\* Emit, the picked node added with the class ids it holds as children
Emit_RawChildren(st, id, node, ids) ==
    LET id_expr == Len(st.expr)
    IN [added_memo |-> MapInsert(st.added_memo, id, id_expr),
        expr |-> RecExprAdd(st.expr, node),
        id |-> id_expr,
        panic |-> ""]

\* the tail of construct_best_rec: the picked node, its children replaced by
\* the ids the recursive calls returned, is added and memoized
Emit(st, id, node, ids) ==
    LET id_expr == Len(st.expr)
    IN [added_memo |-> MapInsert(st.added_memo, id, id_expr),
        expr |-> RecExprAdd(st.expr, [node EXCEPT !.ch = ids]),
        id |-> id_expr,
        panic |-> ""]

ConstructChildren(np, ch, k, ids, st, eg, path) ==
    IF k > Len(ch) \/ st.panic # "" THEN [st |-> st, ids |-> ids]
    ELSE LET r == construct_best_rec(np, ch[k], st, eg, path)
         IN ConstructChildren(np, ch, k + 1, Append(ids, r.id), r, eg, path)

\* construct_best_rec, a memoized class answered with its class id in place
\* of the id memoized for it
construct_best_rec_HitClassId(np, eclass, st, eg, path) ==
    LET id == Find(eg.uf, eclass)
    IN IF st.panic # "" THEN st
       ELSE IF id \in DOMAIN st.added_memo THEN [st EXCEPT !.id = id]
       ELSE IF id \notin DOMAIN np THEN [st EXCEPT !.panic = "unwrap: class has no picked node"]
       ELSE IF id \in path THEN [st EXCEPT !.panic = "stack overflow"]
       ELSE LET r == ConstructChildren(np, np[id].ch, 1, <<>>, st, eg, path \cup {id})
            IN IF r.st.panic # "" THEN r.st
               ELSE IF id \in DOMAIN r.st.added_memo
               THEN [r.st EXCEPT !.panic = "assert: added_memo.insert"]
               ELSE Emit(r.st, id, np[id], r.ids)

construct_best_rec(np, eclass, st, eg, path) ==
    LET id == Find(eg.uf, eclass)
    IN IF st.panic # "" THEN st
       ELSE IF id \in DOMAIN st.added_memo THEN [st EXCEPT !.id = st.added_memo[id]]
       ELSE IF id \notin DOMAIN np THEN [st EXCEPT !.panic = "unwrap: class has no picked node"]
       ELSE IF id \in path THEN [st EXCEPT !.panic = "stack overflow"]
       ELSE LET r == ConstructChildren(np, np[id].ch, 1, <<>>, st, eg, path \cup {id})
            IN IF r.st.panic # "" THEN r.st
               ELSE IF id \in DOMAIN r.st.added_memo
               THEN [r.st EXCEPT !.panic = "assert: added_memo.insert"]
               ELSE Emit(r.st, id, np[id], r.ids)

ConstructBest(np, r, eg) ==
    construct_best_rec(np, r, [added_memo |-> EmptyMap, expr |-> <<>>, id |-> 0, panic |-> ""],
                       eg, {})

(***************************************************************************)
(* optimize: saturation, then extract_by_ilp                               *)
(***************************************************************************)
BuilderVars == <<rec_expr, scalar_map, tensorinfo_map, cost_enode, cost_out, parsed>>

ExtractVars == <<ilp, solved_x, node_picked, dup_log, added_memo, best, res>>

\* RunnerRoot, the most recently created class taken for the root
RunnerRoot_LastClass(added) == Len(added.eg.uf) - 1

\* runner.roots[0]: the class add_expr returned for the last node
RunnerRoot(added) == added.id

\* Runner::with_expr: the e-graph is seeded with the built expression
Optimize ==
    /\ pc = "build"
    /\ rec_expr # <<>>
    /\ LET r == add_expr(EmptyEGraph, rec_expr)
       IN /\ egraph' = EGraphRebuild(r.eg)
          /\ root' = RunnerRoot(r)
    /\ pc' = "sat"
    /\ UNCHANGED <<abort, blacklist_nodes, n_rewrites>>
    /\ UNCHANGED BuilderVars
    /\ UNCHANGED ExtractVars
    /\ UNCHANGED RunnerVars
    /\ UNCHANGED SolverVars
    /\ UNCHANGED FilterVars
    /\ UNCHANGED TmpVars
    /\ UNCHANGED OracleVars

\* the nodes a rewrite's right-hand side may instantiate
RewriteNodes(eg) ==
    {Mdl("NegOp", <<c>>, <<>>) : c \in Classes(eg)}

\* a rewrite instantiates a right-hand side node
RewriteAdd(node) ==
    /\ pc = "sat"
    /\ stop_reason = "None"
    /\ n_rewrites < MaxRewrites
    /\ Len(egraph.uf) < MaxIds
    /\ LET r == EGraphAdd(egraph, node)
       IN /\ r.eg # egraph
          /\ egraph' = r.eg
    /\ n_rewrites' = n_rewrites + 1
    /\ UNCHANGED <<pc, abort, blacklist_nodes, root>>
    /\ UNCHANGED BuilderVars
    /\ UNCHANGED ExtractVars
    /\ UNCHANGED RunnerVars
    /\ UNCHANGED SolverVars
    /\ UNCHANGED FilterVars
    /\ UNCHANGED TmpVars
    /\ UNCHANGED OracleVars

\* a rewrite unions the matched class with the instantiated one
RewriteUnion(a, b) ==
    /\ pc = "sat"
    /\ stop_reason = "None"
    /\ n_rewrites < MaxRewrites
    /\ Find(egraph.uf, a) # Find(egraph.uf, b)
    /\ egraph' = EGraphUnion(egraph, a, b)
    /\ n_rewrites' = n_rewrites + 1
    /\ UNCHANGED <<pc, abort, blacklist_nodes, root>>
    /\ UNCHANGED BuilderVars
    /\ UNCHANGED ExtractVars
    /\ UNCHANGED RunnerVars
    /\ UNCHANGED SolverVars
    /\ UNCHANGED FilterVars
    /\ UNCHANGED TmpVars
    /\ UNCHANGED OracleVars

\* the values of the Num children of a Vec node
VecValues(eg, vec) ==
    [k \in 1..Len(vec.ch) |->
        LET nums == {n \in Range(At(eg.classes, Find(eg.uf, vec.ch[k]))) : n.op = "Num"}
        IN IF nums = {} THEN -1 ELSE (CHOOSE n \in nums : TRUE).val[1]]

\* decreasing_perm("?p"): the class bound to ?p holds a Vec whose entries
\* are strictly decreasing
decreasing_perm(eg, p) ==
    \E vec \in Range(At(eg.classes, Find(eg.uf, p))) :
        /\ vec.op = "Vec"
        /\ \A k \in 1..(Len(vec.ch) - 1) : VecValues(eg, vec)[k] > VecValues(eg, vec)[k + 1]

\* the matches of (TransposeOp (TransposeOp ?x ?p) ?p): the matched class
\* with the classes bound to ?x and ?p
TransposeMatches(eg) ==
    {m \in [root : Classes(eg), x : Classes(eg), p : Classes(eg)] :
        \E outer \in Range(At(eg.classes, m.root)) :
            /\ outer.op = "TransposeOp"
            /\ Find(eg.uf, outer.ch[2]) = m.p
            /\ \E inner \in Range(At(eg.classes, Find(eg.uf, outer.ch[1]))) :
                  /\ inner.op = "TransposeOp"
                  /\ Find(eg.uf, inner.ch[2]) = m.p
                  /\ Find(eg.uf, inner.ch[1]) = m.x}

\* transpose-of-transpose without its condition
transpose_of_transpose_Unconditional(m) ==
    /\ pc = "sat"
    /\ stop_reason = "None"
    /\ m \in TransposeMatches(egraph)
    /\ Find(egraph.uf, m.root) # Find(egraph.uf, m.x)
    /\ egraph' = EGraphUnion(egraph, m.root, m.x)
    /\ n_rewrites' = n_rewrites + 1
    /\ UNCHANGED <<pc, abort, blacklist_nodes, root>>
    /\ UNCHANGED BuilderVars
    /\ UNCHANGED ExtractVars
    /\ UNCHANGED RunnerVars
    /\ UNCHANGED SolverVars
    /\ UNCHANGED FilterVars
    /\ UNCHANGED TmpVars
    /\ UNCHANGED OracleVars

\* the rewrite transpose-of-transpose applied to one match: when the
\* condition holds the matched class is unioned with the class of ?x,
\* otherwise the applier is skipped
transpose_of_transpose(m) ==
    /\ pc = "sat"
    /\ stop_reason = "None"
    /\ m \in TransposeMatches(egraph)
    /\ decreasing_perm(egraph, m.p)
    /\ Find(egraph.uf, m.root) # Find(egraph.uf, m.x)
    /\ egraph' = EGraphUnion(egraph, m.root, m.x)
    /\ n_rewrites' = n_rewrites + 1
    /\ UNCHANGED <<pc, abort, blacklist_nodes, root>>
    /\ UNCHANGED BuilderVars
    /\ UNCHANGED ExtractVars
    /\ UNCHANGED RunnerVars
    /\ UNCHANGED SolverVars
    /\ UNCHANGED FilterVars
    /\ UNCHANGED TmpVars
    /\ UNCHANGED OracleVars

\* the rebuild that ends the apply phase of an iteration
Rebuild ==
    /\ pc = "sat"
    /\ stop_reason = "None"
    /\ egraph.dirty
    /\ egraph' = EGraphRebuild(egraph)
    /\ UNCHANGED <<pc, abort, blacklist_nodes, root, n_rewrites>>
    /\ UNCHANGED BuilderVars
    /\ UNCHANGED ExtractVars
    /\ UNCHANGED RunnerVars
    /\ UNCHANGED SolverVars
    /\ UNCHANGED FilterVars
    /\ UNCHANGED TmpVars
    /\ UNCHANGED OracleVars

\* a node is marked ineligible for extraction
Blacklist(node) ==
    /\ pc = "sat"
    /\ stop_reason = "None"
    /\ Cardinality(blacklist_nodes) < MaxBlacklist
    /\ node \notin blacklist_nodes
    /\ blacklist_nodes' = blacklist_nodes \cup {node}
    /\ UNCHANGED <<pc, abort, egraph, root, n_rewrites>>
    /\ UNCHANGED BuilderVars
    /\ UNCHANGED ExtractVars
    /\ UNCHANGED RunnerVars
    /\ UNCHANGED SolverVars
    /\ UNCHANGED FilterVars
    /\ UNCHANGED TmpVars
    /\ UNCHANGED OracleVars

\* the reasons runner.run may record
StopReasons == {"Saturated", "IterationLimit", "NodeLimit", "TimeLimit"}

\* the caps given to the Runner, scaled down: 10000 iterations, 5000000
\* nodes and 60 seconds in the source
iter_limit == 3

node_limit == 6

n_sec == 2

MaxApplied == 1    \* most nodes the rules add in one iteration

MaxSeconds == 2    \* most seconds one iteration takes

\* the hooks given to the Runner: none, the with_hook call is a comment
Hooks == <<>>

\* Runner::check_limits: time, then size, then iterations
check_limits(it, size, t) ==
    IF t > n_sec THEN "TimeLimit"
    ELSE IF size > node_limit THEN "NodeLimit"
    ELSE IF it >= iter_limit THEN "IterationLimit"
    ELSE "None"

\* egraph.total_size() during the run: the seeded nodes and those the rules added
RunnerSize == total_size(egraph) + n_rewrites

\* one iteration of runner.run: the limits are checked, the hooks run, the
\* rules are searched and applied (applied nodes are added, dt seconds pass),
\* and the iteration is recorded, with a stop reason if a limit was hit or
\* nothing was applied
RunOne ==
    /\ pc = "sat"
    /\ stop_reason = "None"
    /\ LET limit == check_limits(iterations, RunnerSize, elapsed)
       IN IF limit # "None"
          THEN /\ stop_reason' = limit
               /\ UNCHANGED <<n_rewrites, elapsed, multi_runs>>
          ELSE \E applied \in 0..MaxApplied, dt \in 0..MaxSeconds :
                  /\ n_rewrites' = n_rewrites + applied
                  /\ elapsed' = elapsed + dt
                  /\ multi_runs' = multi_runs + Len(Hooks)
                  /\ stop_reason' = IF applied = 0 THEN "Saturated" ELSE "None"
    /\ iterations' = iterations + 1
    /\ UNCHANGED <<pc, abort, egraph, blacklist_nodes, root, use_multi>>
    /\ UNCHANGED BuilderVars
    /\ UNCHANGED ExtractVars
    /\ UNCHANGED SolverVars
    /\ UNCHANGED FilterVars
    /\ UNCHANGED TmpVars
    /\ UNCHANGED OracleVars

\* the last iteration of a run whose rule set has nothing more to apply to
\* the e-graph the rewriting above has left
RunnerStop(reason) ==
    /\ pc = "sat"
    /\ ~egraph.dirty
    /\ stop_reason = "None"
    /\ stop_reason' = reason
    /\ UNCHANGED <<pc, abort, egraph, blacklist_nodes, root, n_rewrites>>
    /\ UNCHANGED <<iterations, elapsed, use_multi, multi_runs>>
    /\ UNCHANGED BuilderVars
    /\ UNCHANGED ExtractVars
    /\ UNCHANGED SolverVars
    /\ UNCHANGED FilterVars
    /\ UNCHANGED TmpVars
    /\ UNCHANGED OracleVars

\* Break, the loop of runner.run left after any iteration
Break_Always(reason) == TRUE

\* the loop of runner.run is left once an iteration has a stop reason
Break(reason) == reason # "None"

\* do_filter_after, cycle removal done after every run
do_filter_after_Always(nc, fa) == TRUE

\* let do_filter_after = no_cycle && filter_after
do_filter_after(nc, fa) == nc /\ fa

\* the classes reached from the classes of seen through the children of their nodes
RECURSIVE ClassReach(_, _)
ClassReach(eg, seen) ==
    LET next == seen \cup {Find(eg.uf, c) : c \in UNION {Range(n.ch) :
                              n \in UNION {Range(At(eg.classes, k)) : k \in seen}}}
    IN IF next = seen THEN seen ELSE ClassReach(eg, next)

\* remove_cycle_by_order: the nodes whose own class is reached from their
\* children are flagged in the blacklist
remove_cycle_by_order(eg, bl) ==
    bl \cup {n \in UNION {Range(At(eg.classes, k)) : k \in Classes(eg)} :
                \E k \in Classes(eg) :
                    /\ n \in Range(At(eg.classes, k))
                    /\ k \in ClassReach(eg, {Find(eg.uf, c) : c \in Range(n.ch)})}

\* runner.run returns; optimize removes cycles if do_filter_after, unwraps
\* and prints the stop reason and goes on to extract_by_ilp
RunnerReturn ==
    /\ pc = "sat"
    /\ Break(stop_reason)
    /\ IF do_filter_after(no_cycle, filter_after)
       THEN /\ blacklist_nodes' = remove_cycle_by_order(egraph, blacklist_nodes)
            /\ cycle_removals' = cycle_removals + 1
       ELSE UNCHANGED <<blacklist_nodes, cycle_removals>>
    /\ IF stop_reason = "None"
       THEN /\ pc' = "abort"
            /\ abort' = "unwrap: stop_reason is None"
       ELSE /\ pc' = "extract"
            /\ abort' = abort
    /\ UNCHANGED <<egraph, root, n_rewrites, no_cycle, filter_after>>
    /\ UNCHANGED BuilderVars
    /\ UNCHANGED ExtractVars
    /\ UNCHANGED RunnerVars
    /\ UNCHANGED TmpVars
    /\ UNCHANGED OracleVars
    /\ UNCHANGED SolverVars

\* the json! text of the request: six of the eight vectors of the tuple
RequestJson(data) ==
    [e_m |-> data.e_m, h_i |-> data.h_i, cost_i |-> data.cost_i, g_i |-> data.g_i,
     root_m |-> data.root_m, blacklist_i |-> data.blacklist_i]

\* no request file
NoRequest == RequestJson(NoIlp)

\* a file of ./tmp: absent, not JSON, or the JSON of a solved_x vector
File(state, x) == [state |-> state, solved_x |-> x]

\* extract_by_ilp up to the start of the solver: the tuple is prepared and
\* the request file is written, whole or not at all
ExtractPrep ==
    /\ pc = "extract"
    /\ \E oracle \in Oracles(OpsIn(egraph)), written \in BOOLEAN :
          LET data == prep_ilp_data(egraph, root, blacklist_nodes, oracle)
          IN IF data.panic # ""
             THEN /\ pc' = "abort"
                  /\ abort' = data.panic
                  /\ ilp' = ilp
                  /\ request_file' = request_file
             ELSE IF ~written
             THEN /\ pc' = "abort"
                  /\ abort' = "Unable to write file"
                  /\ ilp' = data
                  /\ request_file' = request_file
             ELSE /\ pc' = "spawn"
                  /\ abort' = abort
                  /\ ilp' = data
                  /\ request_file' = RequestJson(data)
    /\ UNCHANGED <<egraph, blacklist_nodes, root, n_rewrites>>
    /\ UNCHANGED <<solved_x, node_picked, dup_log, added_memo, best, res>>
    /\ UNCHANGED <<child, solved_file>>
    /\ UNCHANGED BuilderVars
    /\ UNCHANGED RunnerVars
    /\ UNCHANGED FilterVars
    /\ UNCHANGED TmpVars
    /\ UNCHANGED OracleVars

\* Command::spawn: the extractor is started, or the call panics
SolverSpawn ==
    /\ pc = "spawn"
    /\ \E started \in BOOLEAN :
          IF started
          THEN /\ child' = "running"
               /\ pc' = "wait"
               /\ abort' = abort
          ELSE /\ child' = child
               /\ pc' = "abort"
               /\ abort' = "failed to execute child"
    /\ UNCHANGED <<egraph, blacklist_nodes, root, n_rewrites>>
    /\ UNCHANGED <<request_file, solved_file>>
    /\ UNCHANGED ExtractVars
    /\ UNCHANGED BuilderVars
    /\ UNCHANGED RunnerVars
    /\ UNCHANGED FilterVars
    /\ UNCHANGED TmpVars
    /\ UNCHANGED OracleVars

\* The selections the solver may write for the request: the root class has a
\* picked node, every child class of a picked node has a picked node, and no
\* blacklisted node is picked.  Nothing limits a class to one pick and, the
\* solver being started with --no_order, nothing forbids a cyclic selection.
Feasible(data, x) ==
    /\ \E i \in Range(At(data.e_m, data.root_m)) : At(x, i) = 1
    /\ \A i \in Indices(x) :
          At(x, i) = 1 =>
             \A m \in Range(At(data.h_i, i)) : \E j \in Range(At(data.e_m, m)) : At(x, j) = 1
    /\ \A i \in Range(data.blacklist_i) : At(x, i) = 0

Solutions(data) == {x \in [1..Len(data.g_i) -> {0, 1}] : Feasible(data, x)}

\* what the extractor may leave in ./tmp/solved.json
SolverOutputs(request) ==
    {File("missing", <<>>), File("garbage", <<>>)} \cup {File("json", x) : x \in Solutions(request)}

\* the extractor exits: with either status, having read the request and
\* written a selection or something that is not JSON, or having written
\* nothing, which leaves ./tmp/solved.json as it was
SolverExit ==
    /\ child = "running"
    /\ \E status \in {"success", "failure"}, out \in SolverOutputs(request_file) :
          /\ child' = status
          /\ solved_file' = IF out.state = "missing" THEN solved_file ELSE out
          /\ solved_by' = IF out.state = "missing" THEN solved_by ELSE "child"
    /\ UNCHANGED <<pc, abort, egraph, blacklist_nodes, root, n_rewrites, request_file>>
    /\ UNCHANGED ExtractVars
    /\ UNCHANGED BuilderVars
    /\ UNCHANGED RunnerVars
    /\ UNCHANGED OracleVars
    /\ UNCHANGED FilterVars

\* wait_with_output, the call returning while the child still runs
wait_with_output_NoWait(c) == c # "none"

\* wait_with_output returns once the child has exited
wait_with_output(c) == c \in {"success", "failure"}

\* output.status.success(), every status taken for success
success_Always(c) == TRUE

\* output.status.success()
success(c) == c = "success"

\* the variants convert_to_node has an arm for, with the name it gives them
NodeNames ==
    [op \in {"Vec", "Input", "ConstantOp", "ReshapeOp", "ConcatenateOp", "DotGeneralOp",
             "TransposeOp", "MulOp", "AddOp", "DivOp", "SubtractOp", "MinOp", "MaxOp",
             "NegOp", "TanhOp", "ExpOp", "IotaOp", "BlackBox", "Var", "Num"} |->
        IF op = "BlackBox" THEN "blackbox" ELSE op]

\* one arm of the match of convert_to_node
ConvertNode(mdl) ==
    IF mdl.op = "Var" THEN [name |-> "Var", label |-> mdl.val, operands |-> <<>>]
    ELSE IF mdl.op = "Num" THEN [name |-> "Num", label |-> <<>>, operands |-> mdl.val]
    ELSE [name |-> NodeNames[mdl.op], label |-> <<>>, operands |-> mdl.ch]

\* convert_to_node: one ffi::Node per node of the expression, in order; a
\* variant without an arm ends in unimplemented!()
convert_to_node(expr) ==
    IF \E k \in 1..Len(expr) : expr[k].op \notin DOMAIN NodeNames
    THEN [res |-> <<>>, panic |-> "not implemented"]
    ELSE [res |-> [k \in 1..Len(expr) |-> ConvertNode(expr[k])], panic |-> ""]

\* extract_by_ilp after the spawn: the exit is awaited; on success the file
\* is read and parsed, the picks are read, the program is rebuilt; optimize
\* then converts it and returns
ExtractFinish ==
    /\ pc = "wait"
    /\ wait_with_output(child)
    /\ IF ~success(child)
       THEN /\ pc' = "abort"
            /\ abort' = "Python script failed"
            /\ UNCHANGED ExtractVars
       ELSE IF solved_file.state = "missing"
       THEN /\ pc' = "abort"
            /\ abort' = "Something went wrong reading the solved file"
            /\ UNCHANGED ExtractVars
       ELSE IF solved_file.state = "garbage"
       THEN /\ pc' = "abort"
            /\ abort' = "JSON was not well-formatted"
            /\ UNCHANGED ExtractVars
       ELSE IF \E i \in Indices(solved_file.solved_x) :
                    At(solved_file.solved_x, i) = 1 /\ i >= Len(ilp.g_i)
       THEN /\ pc' = "abort"
            /\ abort' = "index out of bounds: g_i"
            /\ solved_x' = solved_file.solved_x
            /\ UNCHANGED <<ilp, node_picked, dup_log, added_memo, best, res>>
       ELSE LET picks == PickNodes(ilp, solved_file.solved_x)
                r == ConstructBest(picks.node_picked, root, egraph)
            IN /\ solved_x' = solved_file.solved_x
               /\ node_picked' = picks.node_picked
               /\ dup_log' = picks.dup_log
               /\ added_memo' = r.added_memo
               /\ best' = r.expr
               /\ ilp' = ilp
               /\ IF r.panic # ""
                  THEN /\ abort' = r.panic
                       /\ pc' = "abort"
                       /\ res' = res
                  ELSE LET c == convert_to_node(r.expr)
                       IN /\ abort' = c.panic
                          /\ pc' = IF c.panic = "" THEN "done" ELSE "abort"
                          /\ res' = c.res
    /\ UNCHANGED <<egraph, blacklist_nodes, root, n_rewrites>>
    /\ UNCHANGED BuilderVars
    /\ UNCHANGED RunnerVars
    /\ UNCHANGED SolverVars
    /\ UNCHANGED FilterVars
    /\ UNCHANGED TmpVars
    /\ UNCHANGED OracleVars

Init ==
    /\ pc = "build"
    /\ abort = ""
    /\ rec_expr = <<>>
    /\ scalar_map = EmptyMap
    /\ tensorinfo_map = EmptyMap
    /\ egraph = EmptyEGraph
    /\ blacklist_nodes = {}
    /\ root = 0
    /\ n_rewrites = 0
    /\ ilp = NoIlp
    /\ solved_x = <<>>
    /\ node_picked = EmptyMap
    /\ dup_log = <<>>
    /\ added_memo = EmptyMap
    /\ best = <<>>
    /\ res = <<>>
    /\ cost_enode = Num(0)
    /\ cost_out = NoCost
    /\ parsed = NoParse
    /\ iterations = 0
    /\ elapsed = 0
    /\ stop_reason = "None"
    /\ use_multi = FALSE
    /\ multi_runs = 0
    /\ request_file = NoRequest
    /\ child = "none"
    /\ solved_file = File("missing", <<>>)
    /\ no_cycle = FALSE
    /\ filter_after = FALSE
    /\ cycle_removals = 0
    /\ solved_by = "none"
    /\ operand = [shape |-> [k \in 1..MAX_DIM |-> 0], n_dim |-> 0]
    /\ oracle_dims = [by |-> "none", dims |-> <<>>]

Next ==
    \/ \E a \in ArgNums, dims \in InputDims : input(a, dims)
    \/ constant_op
    \/ \E inpt \in Handles : neg_op(inpt)
    \/ \E lhs \in Handles, rhs \in Handles : add_op(lhs, rhs)
    \/ Optimize
    \/ \E node \in RewriteNodes(egraph) : RewriteAdd(node)
    \/ \E a \in Classes(egraph), b \in Classes(egraph) : RewriteUnion(a, b)
    \/ Rebuild
    \/ \E c \in Classes(egraph) : \E node \in Range(At(egraph.classes, c)) : Blacklist(node)
    \/ RunnerStop("Saturated")
    \/ RunnerReturn
    \/ ExtractPrep
    \/ SolverSpawn
    \/ SolverExit
    \/ ExtractFinish

Spec == Init /\ [][Next]_vars

(***************************************************************************)
(* get_self_cost on its own, for every operator variant                    *)
(***************************************************************************)
AllOps == {"Num", "Var", "Input", "Vec", "BlackBox", "Index", "ReturnOp",
           "CompareOp", "BroadcastInDimOp", "ConvertOp", "ReduceOp", "ReshapeOp",
           "GatherOp", "SelectOp", "DotGeneralOp", "ConcatenateOp", "PadOp", "SliceOp",
           "TransposeOp", "MulOp", "AddOp", "DivOp", "SubtractOp", "MinOp", "MaxOp",
           "NegOp", "TanhOp", "ExpOp", "IotaOp", "ConstantOp", "DynamicUpdateSliceOp",
           "DynamicSliceOp", "ScatterOp"}

CostChildren == {<<>>, <<0>>, <<0, 1>>, <<1, 0>>}

CostInit ==
    /\ pc = "cost"
    /\ cost_enode \in {Mdl(op, ch, <<>>) : op \in AllOps, ch \in CostChildren}
    /\ cost_out = NoCost
    /\ parsed = NoParse
    /\ abort = ""
    /\ rec_expr = <<>>
    /\ scalar_map = EmptyMap
    /\ tensorinfo_map = EmptyMap
    /\ egraph = EmptyEGraph
    /\ blacklist_nodes = {}
    /\ root = 0
    /\ n_rewrites = 0
    /\ ilp = NoIlp
    /\ solved_x = <<>>
    /\ node_picked = EmptyMap
    /\ dup_log = <<>>
    /\ added_memo = EmptyMap
    /\ best = <<>>
    /\ res = <<>>
    /\ iterations = 0
    /\ elapsed = 0
    /\ stop_reason = "None"
    /\ use_multi = FALSE
    /\ multi_runs = 0
    /\ request_file = NoRequest
    /\ child = "none"
    /\ solved_file = File("missing", <<>>)
    /\ no_cycle = FALSE
    /\ filter_after = FALSE
    /\ cycle_removals = 0
    /\ solved_by = "none"
    /\ operand = [shape |-> [k \in 1..MAX_DIM |-> 0], n_dim |-> 0]
    /\ oracle_dims = [by |-> "none", dims |-> <<>>]

CostCall ==
    /\ pc = "cost"
    /\ \E oracle \in Oracles({cost_enode.op}) : cost_out' = get_self_cost(oracle, cost_enode)
    /\ pc' = "costed"
    /\ UNCHANGED <<abort, rec_expr, scalar_map, tensorinfo_map, egraph, blacklist_nodes, root,
                   n_rewrites, ilp, solved_x, node_picked, dup_log, added_memo, best, res,
                   cost_enode, parsed>>
    /\ UNCHANGED RunnerVars
    /\ UNCHANGED SolverVars
    /\ UNCHANGED FilterVars
    /\ UNCHANGED TmpVars
    /\ UNCHANGED OracleVars

SpecCost == CostInit /\ [][CostCall]_vars

(***************************************************************************)
(* Properties of extract_by_ilp and construct_best_rec                     *)
(***************************************************************************)
ConstructPanics == {"unwrap: class has no picked node", "stack overflow",
                    "assert: added_memo.insert"}

\* prep_ilp_data has returned its tuple
PrepReturned == ilp # NoIlp

\* the picks were read and construct_best_rec was called
PicksRead == pc = "done" \/ (pc = "abort" /\ abort \in ConstructPanics)

NoRepeat(s) == \A j, k \in 1..Len(s) : j # k => s[j] # s[k]

\* some class holds a node that has the class itself as a child
CyclicClass ==
    \E c \in Classes(egraph) :
        \E n \in Range(At(egraph.classes, c)) : c \in Range(Canon(egraph.uf, n).ch)

\* C1: when construct_best_rec returns, every node of the reconstructed
\* expression refers only to nodes at strictly smaller indices.
C1_ExtractionAcyclic ==
    pc = "done" =>
        \A k \in Indices(best) : \A c \in Range(At(best, k).ch) : c >= 0 /\ c < k

C1_Witness == pc = "done" /\ CyclicClass /\ Len(best) >= 3

\* the picked indices of the class with index m
PicksOf(m) == {i \in Range(At(ilp.e_m, m)) : At(solved_x, i) = 1}

\* the picks that are not the first of their class, in index order
LaterPicks ==
    SelectSeq([k \in 1..Len(solved_x) |-> k - 1],
              LAMBDA i : At(solved_x, i) = 1 /\ i # Min(PicksOf(At(ilp.g_i, i))))

\* C3: when several nodes of one class are picked, the node with the smallest
\* index is kept, each later one is dropped and logged, and the run goes on to
\* the reconstruction.
C3_FirstPickKept ==
    PicksRead =>
        /\ DOMAIN node_picked = {At(ilp.m_id_map, m) : m \in {n \in Indices(ilp.e_m) : PicksOf(n) # {}}}
        /\ \A m \in Indices(ilp.e_m) :
              PicksOf(m) # {} =>
                 node_picked[At(ilp.m_id_map, m)] = At(ilp.i_to_nodes, Min(PicksOf(m)))
        /\ dup_log = [k \in 1..Len(LaterPicks) |->
                         [kept |-> At(ilp.i_to_nodes, Min(PicksOf(At(ilp.g_i, LaterPicks[k])))),
                          dropped |-> At(ilp.i_to_nodes, LaterPicks[k])]]
        /\ (pc = "abort" => abort \in ConstructPanics)

C3_Witness == pc = "done" /\ Len(dup_log) >= 1

\* the classes of the children of the node picked for class c
PickedChildren(c) == {Find(egraph.uf, d) : d \in Range(node_picked[c].ch)}

RECURSIVE ReachFrom(_)
ReachFrom(S) ==
    LET T == S \cup UNION {PickedChildren(c) : c \in S \cap DOMAIN node_picked}
    IN IF T = S THEN S ELSE ReachFrom(T)

\* the canonical classes the root reaches through the children of picked nodes
ReachableClasses == ReachFrom({Find(egraph.uf, root)})

\* C4: construct_best_rec on the root emits exactly one node for each class
\* reachable from the root through picked nodes and none for another class,
\* the children of a class before the class, the root last.
C4_PostOrderOfReachable ==
    pc = "done" =>
        /\ DOMAIN added_memo = ReachableClasses
        /\ Len(best) = Cardinality(ReachableClasses)
        /\ \A c, d \in ReachableClasses : c # d => added_memo[c] # added_memo[d]
        /\ \A c \in ReachableClasses :
              /\ added_memo[c] \in Indices(best)
              /\ At(best, added_memo[c]) =
                    map_children(node_picked[c], LAMBDA d : added_memo[Find(egraph.uf, d)])
              /\ \A d \in PickedChildren(c) : added_memo[d] < added_memo[c]
        /\ added_memo[Find(egraph.uf, root)] = Len(best) - 1

C4_Witness ==
    /\ pc = "done"
    /\ Cardinality(ReachableClasses) >= 3
    /\ DOMAIN node_picked # ReachableClasses

(***************************************************************************)
(* Round trip of a built program through optimize with no rewrite applied  *)
(***************************************************************************)
\* the last node the builder added
LastBuilt == Len(rec_expr) - 1

RECURSIVE BuiltFrom(_)
BuiltFrom(S) ==
    LET T == S \cup UNION {Range(At(rec_expr, k).ch) : k \in S}
    IN IF T = S THEN S ELSE BuiltFrom(T)

\* the nodes of the input program rooted at the last-built node
InputProgram == BuiltFrom({LastBuilt})

\* the node of best that stands for node k of rec_expr: the same operator and
\* payload, its children the nodes that stand for the children of k; -1 when
\* best holds no such node
Image[k \in Indices(rec_expr)] ==
    LET n == map_children(At(rec_expr, k), LAMBDA c : Image[c])
        hits == {j \in Indices(best) : At(best, j) = n}
    IN IF hits = {} THEN 0 - 1 ELSE Min(hits)

\* no rule was applied: every class holds the one node the program gave it
EmptyRuleSet ==
    /\ n_rewrites = 0
    /\ blacklist_nodes = {}
    /\ \A c \in Classes(egraph) : Len(At(egraph.classes, c)) = 1

\* best is the input program node for node
SameTerm ==
    /\ \A k \in InputProgram : Image[k] \in Indices(best)
    /\ Image[LastBuilt] = Len(best) - 1
    /\ \A j \in Indices(best) : \E k \in InputProgram : Image[k] = j

\* C2 as stated: with an empty rule set the extracted expression is
\* isomorphic to the input program rooted at the last-built node, its nodes
\* in one-to-one correspondence with the nodes of the input.
C2_RoundTripIsomorphic ==
    (pc = "done" /\ EmptyRuleSet) =>
        /\ SameTerm
        /\ \A k, l \in InputProgram : k # l => Image[k] # Image[l]

\* C2 amended: with an empty rule set the extracted expression denotes the
\* term of the input program rooted at the last-built node, every node of it
\* standing for an input node and the root last, and holds each distinct
\* sub-term once: nodes of the input that are equal are merged into one.
C2_RoundTripSameTerm ==
    (pc = "done" /\ EmptyRuleSet) =>
        /\ SameTerm
        /\ NoRepeat(best)
        /\ Len(best) <= Cardinality(InputProgram)
        /\ \A k, l \in InputProgram :
              (Image[k] = Image[l]) <=>
                 (map_children(At(rec_expr, k), LAMBDA c : Image[c])
                    = map_children(At(rec_expr, l), LAMBDA c : Image[c]))

C2_Witness ==
    /\ pc = "done"
    /\ EmptyRuleSet
    /\ Len(best) >= 3
    /\ Len(best) < Cardinality(InputProgram)

(***************************************************************************)
(* Properties of prep_ilp_data                                             *)
(***************************************************************************)
\* C5: m_id_map has exactly one entry per e-class, every entry canonical, all
\* entries distinct, and the id-to-index map built from it is its inverse.
C5_ClassIndexBijection ==
    /\ abort \notin {"assert: m_id_map.len()", "unwrap: class not in id_m_map"}
    /\ PrepReturned =>
          /\ Len(ilp.m_id_map) = Cardinality(Roots(egraph))
          /\ Range(ilp.m_id_map) = Roots(egraph)
          /\ NoRepeat(ilp.m_id_map)
          /\ LET id_m_map == Id_m_map(ilp.m_id_map)
             IN /\ DOMAIN id_m_map = Roots(egraph)
                /\ \A m \in Indices(ilp.m_id_map) : id_m_map[At(ilp.m_id_map, m)] = m
                /\ \A id \in DOMAIN id_m_map : At(ilp.m_id_map, id_m_map[id]) = id

C5_Witness == PrepReturned /\ Cardinality(Roots(egraph)) < Len(egraph.uf)

\* C6: e_m partitions the node indices 0..N-1 by class, in agreement with g_i;
\* node i is a node of class m_id_map[g_i[i]]; h_i, cost_i, g_i and i_to_nodes
\* have length N, the number of e-nodes.
C6_NodeIndexPartition ==
    PrepReturned =>
        LET N == total_size(egraph)
        IN /\ Len(ilp.h_i) = N
           /\ Len(ilp.cost_i) = N
           /\ Len(ilp.g_i) = N
           /\ Len(ilp.i_to_nodes) = N
           /\ Len(ilp.e_m) = Len(ilp.m_id_map)
           /\ \A m \in Indices(ilp.e_m) :
                 /\ Range(At(ilp.e_m, m)) \subseteq 0..(N - 1)
                 /\ NoRepeat(At(ilp.e_m, m))
           /\ \A i \in 0..(N - 1) :
                 /\ At(ilp.g_i, i) \in Indices(ilp.e_m)
                 /\ \A m \in Indices(ilp.e_m) :
                       (i \in Range(At(ilp.e_m, m))) <=> (At(ilp.g_i, i) = m)
                 /\ At(ilp.i_to_nodes, i)
                       \in Range(At(egraph.classes, At(ilp.m_id_map, At(ilp.g_i, i))))

C6_Witness ==
    /\ PrepReturned
    /\ \E m \in Indices(ilp.e_m) : Len(At(ilp.e_m, m)) >= 2
    /\ \E m \in Indices(ilp.m_id_map) : At(ilp.m_id_map, m) # m

\* C7: h_i[i] lists, in child order, the class index of the canonical class of
\* each child of node i; every entry is a valid class index and the lookup of
\* a child's class never fails.
C7_ChildClassIndices ==
    /\ abort # "unwrap: child not in id_m_map"
    /\ PrepReturned =>
          \A i \in Indices(ilp.h_i) :
              LET node == At(ilp.i_to_nodes, i)
                  h == At(ilp.h_i, i)
              IN /\ Len(h) = Len(node.ch)
                 /\ \A k \in 1..Len(h) :
                       /\ h[k] \in Indices(ilp.m_id_map)
                       /\ At(ilp.m_id_map, h[k]) = Find(egraph.uf, node.ch[k])

C7_Witness ==
    /\ PrepReturned
    /\ n_rewrites >= 1
    /\ \E i \in Indices(ilp.h_i) :
          \E k \in 1..Len(At(ilp.h_i, i)) : At(ilp.h_i, i)[k] # At(ilp.i_to_nodes, i).ch[k]

\* C8: m_id_map[root_m] is the canonical class of the root, also when the
\* root id passed in is no longer canonical.
C8_RootIndex ==
    /\ abort # "unwrap: root not in id_m_map"
    /\ PrepReturned =>
          /\ ilp.root_m \in Indices(ilp.m_id_map)
          /\ At(ilp.m_id_map, ilp.root_m) = Find(egraph.uf, root)

C8_Witness == PrepReturned /\ Find(egraph.uf, root) # root

\* C9: blacklist_i holds index i exactly when node i is in blacklist_nodes,
\* holds no index twice, and misses no blacklisted node stored in a class.
C9_BlacklistIndices ==
    PrepReturned =>
        /\ Range(ilp.blacklist_i)
              = {i \in Indices(ilp.i_to_nodes) : At(ilp.i_to_nodes, i) \in blacklist_nodes}
        /\ NoRepeat(ilp.blacklist_i)
        /\ \A c \in Classes(egraph) :
              \A n \in Range(At(egraph.classes, c)) \cap blacklist_nodes :
                  \E i \in Range(ilp.blacklist_i) : At(ilp.i_to_nodes, i) = n

C9_Witness ==
    /\ PrepReturned
    /\ Len(ilp.blacklist_i) = 1
    /\ At(ilp.blacklist_i, 0) > 0
    /\ Len(ilp.i_to_nodes) > 1

(***************************************************************************)
(* Properties of get_self_cost                                             *)
(***************************************************************************)
\* C10: a cost get_self_cost returns is non-negative, and for Input, Num,
\* Var, Vec, BlackBox and Index nodes it returns exactly zero whatever their
\* children.
C10_CostNonNegative ==
    pc = "costed" =>
        /\ cost_out.panic = "" => cost_out.cost >= 0
        /\ cost_enode.op \in {"Input", "Num", "Var", "Vec", "BlackBox", "Index"}
              => cost_out = Priced(0)

C10_Witness ==
    /\ pc = "costed"
    /\ cost_enode.op = "Index"
    /\ Len(cost_enode.ch) = 2
    /\ cost_out = Priced(0)

(***************************************************************************)
(* Pricing of every operator the builder can construct                     *)
(***************************************************************************)
\* C11: get_self_cost returns a cost for an e-node of every operator variant
\* the builder can construct, ConstantOp included, so that prep_ilp_data
\* never ends in the panic of an unpriced operator.
C11_CostForEveryBuiltOp ==
    /\ abort # "Op unimplemented"
    /\ pc = "costed" => cost_out.panic = ""

(***************************************************************************)
(* Greedy extraction: the costs egg's Extractor computes with TensorCost,  *)
(* and get_init_solution over them                                         *)
(***************************************************************************)
\* the index of a stored node (nodes_to_i)
NodeIndex(data, node) == Min({i \in Indices(data.i_to_nodes) : At(data.i_to_nodes, i) = node})

\* the self cost prep_ilp_data recorded for a stored node
SelfCost(data, node) == At(data.cost_i, NodeIndex(data, node))

RECURSIVE SumSeq(_, _)
SumSeq(s, k) == IF k = 0 THEN 0 ELSE s[k] + SumSeq(s, k - 1)

\* TensorCost::cost: the self cost plus the costs of the children's classes
TensorCost(data, eg, costs, enode) ==
    SelfCost(data, enode)
        + SumSeq([k \in 1..Len(enode.ch) |-> costs[Find(eg.uf, enode.ch[k])].cost],
                 Len(enode.ch))

\* the first cheapest node of a class among those whose children are all priced
ClassPass(data, eg, costs, c) ==
    LET ns == At(eg.classes, c)
        ok == {k \in 1..Len(ns) :
                  \A d \in Range(ns[k].ch) : Find(eg.uf, d) \in DOMAIN costs}
        k0 == CHOOSE k \in ok :
                  \A j \in ok :
                      \/ TensorCost(data, eg, costs, ns[k]) < TensorCost(data, eg, costs, ns[j])
                      \/ (TensorCost(data, eg, costs, ns[k]) = TensorCost(data, eg, costs, ns[j])
                          /\ k <= j)
    IN IF ok = {} THEN [found |-> FALSE, cost |-> 0, node |-> ns[1]]
       ELSE [found |-> TRUE, cost |-> TensorCost(data, eg, costs, ns[k0]), node |-> ns[k0]]

\* Extractor::find_costs: passes over the classes until nothing changes; a
\* class's entry is replaced only by a strictly cheaper one
RECURSIVE FindCosts(_, _, _)
FindCosts(data, eg, costs) ==
    LET better == {c \in Classes(eg) :
                      LET p == ClassPass(data, eg, costs, c)
                      IN p.found /\ (c \in DOMAIN costs => p.cost < costs[c].cost)}
        next == [c \in (DOMAIN costs) \cup better |->
                    IF c \in better
                    THEN LET p == ClassPass(data, eg, costs, c)
                         IN [cost |-> p.cost, node |-> p.node]
                    ELSE costs[c]]
    IN IF better = {} THEN costs ELSE FindCosts(data, eg, next)

RECURSIVE get_init_rec(_, _, _, _, _)
RECURSIVE InitChildren(_, _, _, _, _, _)

InitChildren(eg, ch, k, st, costs, path) ==
    IF k > Len(ch) \/ st.panic # "" THEN st
    ELSE InitChildren(eg, ch, k + 1, get_init_rec(eg, ch[k], st, costs, path), costs, path)

get_init_rec(eg, eclass, st, costs, path) ==
    LET id == Find(eg.uf, eclass)
    IN IF st.panic # "" \/ id \in st.added_memo THEN st
       ELSE IF id \notin DOMAIN costs THEN [st EXCEPT !.panic = "Failed to extract from eclass"]
       ELSE IF id \in path THEN [st EXCEPT !.panic = "stack overflow"]
       ELSE LET best_node == costs[id].node
                r == InitChildren(eg, best_node.ch, 1, st, costs, path \cup {id})
            IN IF r.panic # "" THEN r
               ELSE [r EXCEPT !.nodes = Append(@, best_node),
                              !.added_memo = @ \cup {id}]

get_init_solution(eg, r, costs, data) ==
    LET st == get_init_rec(eg, r, [added_memo |-> {}, nodes |-> <<>>, panic |-> ""], costs, {})
        i_list == [k \in 1..Len(st.nodes) |-> NodeIndex(data, st.nodes[k])]
    IN [panic |-> st.panic,
        i_list |-> i_list,
        m_list |-> [k \in 1..Len(i_list) |-> At(data.g_i, i_list[k])]]

\* the summed self cost of the greedy selection
GreedyCost ==
    LET g == get_init_solution(egraph, root, FindCosts(ilp, egraph, EmptyMap), ilp)
    IN SumSeq([k \in 1..Len(g.i_list) |-> At(ilp.cost_i, g.i_list[k])], Len(g.i_list))

\* the summed self cost of the extracted program
ExtractedCost ==
    SumSeq([k \in 1..Len(best) |->
               SelfCost(ilp, CHOOSE n \in Range(ilp.i_to_nodes) :
                                \E c \in DOMAIN added_memo :
                                    /\ added_memo[c] = k - 1
                                    /\ node_picked[c] = n)],
           Len(best))

\* C12: the summed self cost of the program extract_by_ilp returns is at most
\* the summed self cost of the greedy selection on the same e-graph, whatever
\* feasible selection the solver wrote before it stopped.
C12_CostAtMostGreedy == pc = "done" => ExtractedCost <= GreedyCost

(***************************************************************************)
(* Builder calls with a shape attribute of up to MaxShapeLen dimensions    *)
(***************************************************************************)
MaxShapeLen == 9

\* shape attributes of every length up to MaxShapeLen
OverflowDims == {[k \in 1..n |-> 1] : n \in 0..MaxShapeLen}

NextOverflow ==
    \/ \E dims \in OverflowDims : input(0, dims)
    \/ \E inpt \in Handles, shape \in OverflowDims : reshape_op(inpt, shape)
    \/ Optimize

SpecOverflow == Init /\ [][NextOverflow]_vars

\* the call of the step ended in the panic of the shape store, with no handle
OverflowFatal ==
    /\ pc' = "abort"
    /\ abort' = "index out of bounds: shape"
    /\ tensorinfo_map' = tensorinfo_map

\* C13: a builder call whose shape attribute has more than MAX_DIM dimensions
\* fails fatally: it returns no handle, and neither another builder call nor
\* optimize can follow it.
C13_ShapeOverflowFatal ==
    [][/\ \A shape \in OverflowDims :
             Len(shape) > MAX_DIM =>
                /\ input(0, shape) => OverflowFatal
                /\ \A inpt \in Handles : reshape_op(inpt, shape) => OverflowFatal
       /\ pc = "abort" => (pc' = "abort" /\ tensorinfo_map' = tensorinfo_map /\ egraph' = egraph)
      ]_vars

C13_Witness ==
    /\ pc = "abort"
    /\ abort = "index out of bounds: shape"
    /\ Cardinality(DOMAIN tensorinfo_map) >= 1
    /\ \E k \in Indices(rec_expr) : At(rec_expr, k).op = "Vec" /\ Len(At(rec_expr, k).ch) > MAX_DIM

(***************************************************************************)
(* Shape inference of the builder: pad_op and concatenate_op               *)
(***************************************************************************)
MaxPad == 1

\* dims offered to input(): ranks 1, 2 and MAX_DIM, sizes 0, 1 and more
ShapeDims == {<<0>>, <<1>>, <<2>>, <<2, 3>>, [k \in 1..MAX_DIM |-> 2]}

\* padding arrays of length n
PadArrays(n) ==
    IF n <= 2 THEN [1..n -> 0..MaxPad] ELSE {[k \in 1..n |-> v] : v \in 0..MaxPad}

\* one or two handles of equal rank to concatenate, with the axis
ConcatInputs ==
    {<<a>> : a \in Handles} \cup {<<a, b>> : a \in Handles, b \in Handles}

NextShapes ==
    \/ \E dims \in ShapeDims : input(0, dims)
    \/ \E inpt \in Handles :
          \E lo \in PadArrays(inpt.n_dim), hi \in PadArrays(inpt.n_dim),
             int \in PadArrays(inpt.n_dim) : pad_op(inpt, 0, lo, hi, int)
    \/ \E inputs \in ConcatInputs :
          \E dimension \in 0..(inputs[1].n_dim - 1) : concatenate_op(inputs, dimension)

SpecShapes == Init /\ [][NextShapes]_vars

\* the step made exactly one new handle
NewHandle(id) == id \in DOMAIN tensorinfo_map' /\ id \notin DOMAIN tensorinfo_map

\* C14: pad_op on a handle of n_dim <= MAX_DIM dimensions, with padding arrays
\* of length n_dim, returns a handle of the same n_dim whose shape is
\* in[i] + low[i] + high[i] + max(in[i] - 1, 0) * interior[i] for every i < n_dim.
C14_PadShape ==
    [][\A inpt \in Handles :
          \A lo \in PadArrays(inpt.n_dim), hi \in PadArrays(inpt.n_dim),
             int \in PadArrays(inpt.n_dim) :
              pad_op(inpt, 0, lo, hi, int) =>
                 \E id \in DOMAIN tensorinfo_map' :
                     /\ NewHandle(id)
                     /\ tensorinfo_map'[id].n_dim = inpt.n_dim
                     /\ \A i \in 1..inpt.n_dim :
                           tensorinfo_map'[id].shape[i]
                              = inpt.shape[i] + lo[i] + hi[i]
                                  + Max({inpt.shape[i] - 1, 0}) * int[i]
      ]_vars

\* the inputs agree in rank and in every dimension but the axis
Concatenable(inputs, dimension) ==
    \A k \in 1..Len(inputs) :
        /\ inputs[k].n_dim = inputs[1].n_dim
        /\ \A i \in 1..inputs[1].n_dim :
              i # dimension + 1 => inputs[k].shape[i] = inputs[1].shape[i]

\* C15: concatenate_op returns a handle whose size along the axis is the sum
\* of the inputs' sizes along it and whose other dimensions are the inputs'.
C15_ConcatShape ==
    [][\A inputs \in ConcatInputs :
          \A dimension \in 0..(inputs[1].n_dim - 1) :
              (Concatenable(inputs, dimension) /\ concatenate_op(inputs, dimension)) =>
                 \E id \in DOMAIN tensorinfo_map' :
                     /\ NewHandle(id)
                     /\ tensorinfo_map'[id].n_dim = inputs[1].n_dim
                     /\ \A i \in 1..inputs[1].n_dim :
                           tensorinfo_map'[id].shape[i]
                              = IF i = dimension + 1
                                THEN SumSeq([k \in 1..Len(inputs) |-> inputs[k].shape[i]],
                                            Len(inputs))
                                ELSE inputs[1].shape[i]
      ]_vars

(***************************************************************************)
(* The name input() gives an operand, read back by dim_from_name_string    *)
(***************************************************************************)
MaxDim == 12

\* block argument numbers and dims offered to input(): ranks 0, 1, 2 and
\* MAX_DIM, sizes of one and two digits
NameArgs == {0, MaxDim}

NameDims ==
    {<<>>} \cup {<<d>> : d \in {0, 3, MaxDim}}
           \cup {<<d, e>> : d \in {0, 3, MaxDim}, e \in {0, 3, MaxDim}}
           \cup {[k \in 1..MAX_DIM |-> MaxDim]}

\* the cost model parses the name of the operand of an Input node
ParseName(h) ==
    /\ pc = "build"
    /\ At(rec_expr, h.id).op = "Input"
    /\ parsed' = [handle |-> h.id,
                  out |-> dim_from_name_string(At(rec_expr, At(rec_expr, h.id).ch[1]).val)]
    /\ UNCHANGED <<pc, abort, rec_expr, scalar_map, tensorinfo_map, egraph, blacklist_nodes,
                   root, n_rewrites, ilp, solved_x, node_picked, dup_log, added_memo, best, res,
                   cost_enode, cost_out>>
    /\ UNCHANGED RunnerVars
    /\ UNCHANGED SolverVars
    /\ UNCHANGED FilterVars
    /\ UNCHANGED TmpVars
    /\ UNCHANGED OracleVars

NextName ==
    \/ \E a \in NameArgs, dims \in NameDims : input(a, dims)
    \/ \E h \in Handles : ParseName(h)

SpecName == Init /\ [][NextName]_vars

\* C16: for dims of length at most MAX_DIM, parsing the part after '@' of the
\* name input(arg, dims) gave the operand, as dim_from_name_string does,
\* yields the zero-padded shape and the n_dim of the handle input returned.
C16_NameRoundTrip ==
    parsed # NoParse =>
        /\ parsed.out.panic = ""
        /\ parsed.out.shape = tensorinfo_map[parsed.handle].shape
        /\ parsed.out.n_dim = tensorinfo_map[parsed.handle].n_dim


(***************************************************************************)
(* The solver interaction of extract_by_ilp                                *)
(***************************************************************************)
\* extract_by_ilp read or tried to read ./tmp/solved.json
ResponseRead ==
    \/ PicksRead
    \/ pc = "abort" /\ abort \in {"Something went wrong reading the solved file",
                                  "JSON was not well-formatted",
                                  "index out of bounds: g_i"}

\* C17: within one extract_by_ilp call the request file holds the whole
\* request before the subprocess exists, the response file is read only once
\* the subprocess has exited, and no subprocess runs when the call has
\* returned or aborted.
C17_SolverInteractionOrdered ==
    /\ child # "none" => PrepReturned /\ request_file = RequestJson(ilp)
    /\ ResponseRead => child \in {"success", "failure"}
    /\ pc \in {"done", "abort"} => child # "running"

C17_Witness ==
    /\ pc = "done"
    /\ child = "success"
    /\ request_file = RequestJson(ilp)
    /\ solved_x = solved_file.solved_x
    /\ Len(solved_x) >= 2


\* the subprocess exited with a non-zero status, or left no well-formed file
SolverFailed ==
    \/ child = "failure"
    \/ child = "success" /\ solved_file.state # "json"

\* C18: when the subprocess has exited with a non-zero status, or with
\* ./tmp/solved.json missing or not well-formed JSON, extract_by_ilp ends in a
\* panic and builds no expression; on a non-zero status the file is not read,
\* whatever it holds.
C18_SolverFailureFatal ==
    SolverFailed =>
        /\ pc \in {"wait", "abort"}
        /\ pc = "abort" =>
              abort = IF child = "failure" THEN "Python script failed"
                      ELSE IF solved_file.state = "missing"
                      THEN "Something went wrong reading the solved file"
                      ELSE "JSON was not well-formatted"
        /\ best = <<>>
        /\ res = <<>>
        /\ node_picked = EmptyMap
        /\ child = "failure" => solved_x = <<>> /\ ~ResponseRead

C18_Witness ==
    /\ pc = "abort"
    /\ child = "failure"
    /\ solved_file.state = "json"

\* the two unreadable files are reached as well
C18_WitnessUnreadable ==
    /\ pc = "abort"
    /\ child = "success"
    /\ solved_file.state = "garbage"


(***************************************************************************)
(* The saturation run against its limits                                   *)
(***************************************************************************)
RunnerDims == {<<>>, <<2>>}

NextRunner ==
    \/ \E dims \in RunnerDims : input(0, dims)
    \/ Optimize
    \/ RunOne
    \/ RunnerReturn
    \/ ExtractPrep
    \/ SolverSpawn
    \/ SolverExit
    \/ ExtractFinish

SpecRunner == Init /\ [][NextRunner]_vars

\* the loop of runner.run keeps iterating and returns when it is left
SpecRunnerFair == SpecRunner /\ WF_vars(RunOne) /\ WF_vars(RunnerReturn)

\* the run was started and has returned
RunReturned == pc \in {"extract", "spawn", "wait", "done"} \/ (pc = "abort" /\ PrepReturned)

\* the stop reason names the limit that was hit, and no earlier limit was
StopReasonRight ==
    /\ stop_reason = "TimeLimit" => elapsed > n_sec
    /\ stop_reason = "NodeLimit" => elapsed <= n_sec /\ RunnerSize > node_limit
    /\ stop_reason = "IterationLimit" =>
          /\ elapsed <= n_sec
          /\ RunnerSize <= node_limit
          /\ iterations = iter_limit + 1
    /\ stop_reason = "Saturated" => RunnerSize <= node_limit /\ iterations <= iter_limit
    /\ iterations <= iter_limit + 1

\* C19: the run started by optimize ends: it stops at the first of the time
\* limit, the node limit, the iteration limit and saturation, never iterating
\* past the iteration limit; when it has returned a stop reason is recorded,
\* so that unwrapping it does not panic, and extract_by_ilp is entered
\* whatever the reason.
C19_RunEndsWithReason ==
    /\ [](StopReasonRight)
    /\ [](RunReturned => stop_reason \in StopReasons)
    /\ [](abort # "unwrap: stop_reason is None")
    /\ \A reason \in StopReasons \cup {"None"} :
          (pc = "sat" /\ stop_reason = reason) ~> (pc = "extract" /\ stop_reason \in StopReasons)

C19_Witness ==
    /\ pc = "done"
    /\ stop_reason = "IterationLimit"
    /\ iterations = iter_limit + 1

\* every reason is reached, and extraction has run after it
C19_EveryReason(reason) == pc = "done" /\ stop_reason = reason


(***************************************************************************)
(* The multi-pattern setting of optimize                                   *)
(***************************************************************************)
\* optimize with its use_multi setting either way; the source sets it false
MultiInit ==
    /\ pc = "build"
    /\ abort = ""
    /\ rec_expr = <<>>
    /\ scalar_map = EmptyMap
    /\ tensorinfo_map = EmptyMap
    /\ egraph = EmptyEGraph
    /\ blacklist_nodes = {}
    /\ root = 0
    /\ n_rewrites = 0
    /\ ilp = NoIlp
    /\ solved_x = <<>>
    /\ node_picked = EmptyMap
    /\ dup_log = <<>>
    /\ added_memo = EmptyMap
    /\ best = <<>>
    /\ res = <<>>
    /\ cost_enode = Num(0)
    /\ cost_out = NoCost
    /\ parsed = NoParse
    /\ iterations = 0
    /\ elapsed = 0
    /\ stop_reason = "None"
    /\ use_multi \in BOOLEAN
    /\ multi_runs = 0
    /\ request_file = NoRequest
    /\ child = "none"
    /\ solved_file = File("missing", <<>>)
    /\ no_cycle = FALSE
    /\ filter_after = FALSE
    /\ cycle_removals = 0
    /\ solved_by = "none"
    /\ operand = [shape |-> [k \in 1..MAX_DIM |-> 0], n_dim |-> 0]
    /\ oracle_dims = [by |-> "none", dims |-> <<>>]

SpecMulti == MultiInit /\ [][NextRunner]_vars

\* C20: with use_multi set, a run that has returned after an iteration that
\* passed the limit check has called multi_patterns.run_one from a hook of
\* the Runner at least once.
C20_MultiPatternsInvoked ==
    (use_multi /\ RunReturned /\ iterations >= 2) => multi_runs >= 1


(***************************************************************************)
(* The cycle filter settings of optimize                                   *)
(***************************************************************************)
\* optimize with no_cycle and filter_after either way; the source sets both false
FilterInit ==
    /\ pc = "build"
    /\ abort = ""
    /\ rec_expr = <<>>
    /\ scalar_map = EmptyMap
    /\ tensorinfo_map = EmptyMap
    /\ egraph = EmptyEGraph
    /\ blacklist_nodes = {}
    /\ root = 0
    /\ n_rewrites = 0
    /\ ilp = NoIlp
    /\ solved_x = <<>>
    /\ node_picked = EmptyMap
    /\ dup_log = <<>>
    /\ added_memo = EmptyMap
    /\ best = <<>>
    /\ res = <<>>
    /\ cost_enode = Num(0)
    /\ cost_out = NoCost
    /\ parsed = NoParse
    /\ iterations = 0
    /\ elapsed = 0
    /\ stop_reason = "None"
    /\ use_multi = FALSE
    /\ multi_runs = 0
    /\ request_file = NoRequest
    /\ child = "none"
    /\ solved_file = File("missing", <<>>)
    /\ no_cycle \in BOOLEAN
    /\ filter_after \in BOOLEAN
    /\ cycle_removals = 0
    /\ solved_by = "none"
    /\ operand = [shape |-> [k \in 1..MAX_DIM |-> 0], n_dim |-> 0]
    /\ oracle_dims = [by |-> "none", dims |-> <<>>]

NextFilter ==
    \/ \E dims \in RunnerDims : input(0, dims)
    \/ Optimize
    \/ \E a \in Classes(egraph), b \in Classes(egraph) : RewriteUnion(a, b)
    \/ Rebuild
    \/ RunnerStop("Saturated")
    \/ RunnerReturn
    \/ ExtractPrep
    \/ SolverSpawn
    \/ SolverExit
    \/ ExtractFinish

SpecFilter == FilterInit /\ [][NextFilter]_vars

\* runner.run has returned and optimize has gone past the cycle removal
RunEnded == stop_reason # "None" /\ pc # "sat"

\* C21: remove_cycle_by_order has run once when the run has ended with
\* no_cycle and filter_after both set, and not at all in any other case:
\* never before the last iteration of the run, never with another setting,
\* and prep_ilp_data reads the blacklist it has left.
C21_CycleRemovalOnce ==
    /\ cycle_removals = IF RunEnded /\ no_cycle /\ filter_after THEN 1 ELSE 0
    /\ PrepReturned /\ no_cycle /\ filter_after =>
          blacklist_nodes = remove_cycle_by_order(egraph, blacklist_nodes)

C21_Witness ==
    /\ pc = "done"
    /\ no_cycle /\ filter_after
    /\ cycle_removals = 1
    /\ CyclicClass
    /\ blacklist_nodes # {}


(***************************************************************************)
(* The records optimize returns                                            *)
(***************************************************************************)
ConvertTypes == {0, 1}

NextConvert ==
    \/ \E dims \in RunnerDims : input(0, dims)
    \/ \E inpt \in Handles, output_type \in ConvertTypes : convert_op(inpt, output_type)
    \/ \E inpt \in Handles : neg_op(inpt)
    \/ Optimize
    \/ RunnerStop("Saturated")
    \/ RunnerReturn
    \/ ExtractPrep
    \/ SolverSpawn
    \/ SolverExit
    \/ ExtractFinish

SpecConvert == Init /\ [][NextConvert]_vars

\* the record of a node: its variant's name, the label of a Var, and as
\* operands the indices of its children (the value, for a Num)
FlatRecord(mdl, rec) ==
    /\ rec.name = IF mdl.op = "BlackBox" THEN "blackbox" ELSE mdl.op
    /\ rec.label = IF mdl.op = "Var" THEN mdl.val ELSE <<>>
    /\ rec.operands = IF mdl.op = "Num" THEN mdl.val ELSE mdl.ch

\* C22: once construct_best_rec has built the extracted expression, optimize
\* returns one flat record per node of it, in the order of the expression,
\* whatever operator the builder has put in the program; the conversion does
\* not abort.
C22_FlatRecords ==
    /\ abort # "not implemented"
    /\ pc = "done" =>
          /\ Len(res) = Len(best)
          /\ \A k \in 1..Len(best) : FlatRecord(best[k], res[k])


(***************************************************************************)
(* The conditional rewrite transpose-of-transpose                          *)
(***************************************************************************)
TransposeDims == {<<2>>, <<2, 3>>, <<2, 3, 4>>}

\* the permutations of 0..n-1 offered to transpose_op
Perms(n) == {q \in [1..n -> 0..(n - 1)] : \A i, j \in 1..n : i # j => q[i] # q[j]}

NextTranspose ==
    \/ \E dims \in TransposeDims : input(0, dims)
    \/ \E inpt \in Handles : \E permutation \in Perms(inpt.n_dim) : transpose_op(inpt, permutation)
    \/ Optimize
    \/ \E m \in TransposeMatches(egraph) : transpose_of_transpose(m)
    \/ Rebuild
    \/ RunnerStop("Saturated")
    \/ RunnerReturn

SpecTranspose == Init /\ [][NextTranspose]_vars

\* the entries of the Vec of class p are strictly decreasing
StrictlyDecreasing(eg, p) ==
    \A vec \in Range(At(eg.classes, Find(eg.uf, p))) :
        vec.op = "Vec" =>
           \A j, k \in 1..Len(vec.ch) : j < k => VecValues(eg, vec)[j] > VecValues(eg, vec)[k]

\* the step unions classes a and b, distinct before it
Unioned(a, b) ==
    /\ Find(egraph.uf, a) # Find(egraph.uf, b)
    /\ Find(egraph'.uf, a) = Find(egraph'.uf, b)

\* C23: during the run two classes are unioned by the rule only as the
\* matched class and the class of ?x of a match of
\* (TransposeOp (TransposeOp ?x ?p) ?p) whose ?p is strictly decreasing; a
\* match with any other ?p leaves its class apart from the class of ?x.
C23_TransposeOnlyDecreasing ==
    [][(pc = "sat" /\ ~egraph.dirty) =>
          \A a, b \in Classes(egraph) :
             (a < b /\ Unioned(a, b)) =>
                \E m \in TransposeMatches(egraph) :
                   /\ {m.root, m.x} = {a, b}
                   /\ StrictlyDecreasing(egraph, m.p)]_vars

\* a run has ended with a match of an increasing ?p, its class left apart
\* from the class of ?x
C23_Witness ==
    /\ pc = "extract"
    /\ \E m \in TransposeMatches(egraph) : ~StrictlyDecreasing(egraph, m.p) /\ m.root # m.x

\* a run has ended with a match of a two-entry decreasing ?p, its class
\* unioned with the class of ?x
C23_WitnessUnioned ==
    /\ pc = "extract"
    /\ n_rewrites = 1
    /\ \E m \in TransposeMatches(egraph) :
          /\ m.root = m.x
          /\ \E vec \in Range(At(egraph.classes, m.p)) : vec.op = "Vec" /\ Len(vec.ch) = 2


(***************************************************************************)
(* Hashcons uniqueness                                                     *)
(***************************************************************************)
\* no two distinct classes hold nodes of the same variant and the same
\* canonical children
NoCongruent(eg) ==
    \A a, b \in Classes(eg) :
        a # b =>
           \A n \in Range(At(eg.classes, a)), m \in Range(At(eg.classes, b)) :
               Canon(eg.uf, n) # Canon(eg.uf, m)

\* the data of prep_ilp_data lists no canonical node under two class indices
ListedOnce(data, eg) ==
    \A i, j \in 1..Len(data.i_to_nodes) :
        Canon(eg.uf, data.i_to_nodes[i]) = Canon(eg.uf, data.i_to_nodes[j])
           => data.g_i[i] = data.g_i[j]

PickedClosed(np, eg, r) ==
    /\ Find(eg.uf, r) \in DOMAIN np
    /\ \A id \in DOMAIN np : \A c \in Range(np[id].ch) : Find(eg.uf, c) \in DOMAIN np

\* C25: construct_best_rec returns for every picked-node map in which the
\* root class is picked and every child class of a picked node is picked.
C25_ConstructReturns ==
    (pc \in {"done", "abort"} /\ PickedClosed(node_picked, egraph, root))
        => abort # "stack overflow"


(***************************************************************************)
(* ./tmp/solved.json across optimize calls                                 *)
(***************************************************************************)
\* a later optimize call, on a converter newly built: the call before it has
\* returned or died, and the files it left in ./tmp are still there
NewCall ==
    /\ pc \in {"done", "abort"}
    /\ pc' = "build"
    /\ abort' = ""
    /\ rec_expr' = <<>>
    /\ scalar_map' = EmptyMap
    /\ tensorinfo_map' = EmptyMap
    /\ egraph' = EmptyEGraph
    /\ blacklist_nodes' = {}
    /\ root' = 0
    /\ n_rewrites' = 0
    /\ ilp' = NoIlp
    /\ solved_x' = <<>>
    /\ node_picked' = EmptyMap
    /\ dup_log' = <<>>
    /\ added_memo' = EmptyMap
    /\ best' = <<>>
    /\ res' = <<>>
    /\ iterations' = 0
    /\ elapsed' = 0
    /\ stop_reason' = "None"
    /\ multi_runs' = 0
    /\ child' = "none"
    /\ cycle_removals' = 0
    /\ solved_by' = IF solved_file.state = "missing" THEN "none" ELSE "earlier"
    /\ UNCHANGED <<cost_enode, cost_out, parsed, use_multi, request_file, solved_file,
                   no_cycle, filter_after>>
    /\ UNCHANGED OracleVars

NextStale ==
    \/ \E dims \in RunnerDims : input(0, dims)
    \/ \E inpt \in Handles : neg_op(inpt)
    \/ Optimize
    \/ RunnerStop("Saturated")
    \/ RunnerReturn
    \/ ExtractPrep
    \/ SolverSpawn
    \/ SolverExit
    \/ ExtractFinish
    \/ NewCall

SpecStale == Init /\ [][NextStale]_vars

\* extract_by_ilp parsed the content of ./tmp/solved.json
ResponseParsed ==
    \/ PicksRead
    \/ pc = "abort" /\ abort = "index out of bounds: g_i"

\* C26: the response extract_by_ilp parses was written by the subprocess
\* spawned in the same call; what an earlier call left in ./tmp/solved.json
\* is never parsed as the answer to a later request.
C26_ResponseOfThisCall == ResponseParsed => solved_by = "child"


(***************************************************************************)
(* The converter's expression under builder calls                          *)
(***************************************************************************)
BuilderDims == {<<2>>, <<2, 3>>}

BuilderShapes == {<<2>>, <<3, 2>>, <<2, 2>>}

DotDims == {<<>>, <<0>>, <<1>>}

NextBuilder ==
    \/ \E dims \in BuilderDims : input(0, dims)
    \/ constant_op
    \/ \E inpt \in Handles : neg_op(inpt)
    \/ \E lhs \in Handles, rhs \in Handles : add_op(lhs, rhs)
    \/ \E inpt \in Handles : \E shape \in BuilderShapes : reshape_op(inpt, shape)
    \/ \E inpt \in Handles : \E permutation \in Perms(inpt.n_dim) : transpose_op(inpt, permutation)
    \/ \E inpt \in Handles : \E output_type \in ConvertTypes : convert_op(inpt, output_type)
    \/ \E lhs \in Handles, rhs \in Handles :
          \E lc \in DotDims, rc \in DotDims, shape \in BuilderShapes :
             dot_general_op(lhs, rhs, <<>>, <<>>, lc, rc, <<0, 0>>, shape)

SpecBuilder == Init /\ [][NextBuilder]_vars

\* every child of every node is at a strictly smaller index
TopologicallyOrdered(expr) ==
    \A i \in Indices(expr) : \A c \in Range(At(expr, i).ch) : c \in 0..(i - 1)

\* old is kept as the first nodes of new
AppendOnly(old, new) ==
    /\ Len(old) <= Len(new)
    /\ \A i \in Indices(old) : At(new, i) = At(old, i)

\* C27: every builder call given handles returned earlier keeps the nodes
\* the expression had, at their indices, adds only nodes whose children are
\* at strictly smaller indices, and keeps every handle returned before, its
\* id denoting the same node.
C27_AppendOnlyTopological ==
    [][pc = "build" =>
          /\ AppendOnly(rec_expr, rec_expr')
          /\ TopologicallyOrdered(rec_expr')
          /\ \A k \in DOMAIN tensorinfo_map :
                /\ k \in DOMAIN tensorinfo_map'
                /\ tensorinfo_map'[k] = tensorinfo_map[k]
                /\ tensorinfo_map[k].id = k
                /\ At(rec_expr', k) = At(rec_expr, k)]_vars

\* three handles were returned, the last by dot_general_op on handles
\* returned before it
C27_Witness ==
    /\ Cardinality(DOMAIN tensorinfo_map) = 3
    /\ rec_expr # <<>>
    /\ rec_expr[Len(rec_expr)].op = "DotGeneralOp"
    /\ rec_expr[Len(rec_expr)].ch[1] # rec_expr[Len(rec_expr)].ch[2]

\* C28: each distinct scalar value is held by at most one Num node of the
\* converter's expression.
C28_ScalarsNotReplicated ==
    \A i, j \in 1..Len(rec_expr) :
        (i # j /\ rec_expr[i].op = "Num" /\ rec_expr[j].op = "Num")
            => rec_expr[i].val # rec_expr[j].val


(***************************************************************************)
(* The dimension lists handed to the oracle                                *)
(***************************************************************************)
MaxOperandDims == 4   \* most dimensions of an operand priced

MaxExtent == 2        \* the extents of a dimension are 0..MaxExtent

\* zero-padded shapes of n_dim <= MaxOperandDims dimensions with entries >= 0
Operands ==
    UNION {{[shape |-> [k \in 1..MAX_DIM |-> IF k <= n THEN d[k] ELSE 0], n_dim |-> n] :
               d \in [1..n -> 0..MaxExtent]} : n \in 0..MaxOperandDims}

DimsInit ==
    /\ pc = "build"
    /\ abort = ""
    /\ rec_expr = <<>>
    /\ scalar_map = EmptyMap
    /\ tensorinfo_map = EmptyMap
    /\ egraph = EmptyEGraph
    /\ blacklist_nodes = {}
    /\ root = 0
    /\ n_rewrites = 0
    /\ ilp = NoIlp
    /\ solved_x = <<>>
    /\ node_picked = EmptyMap
    /\ dup_log = <<>>
    /\ added_memo = EmptyMap
    /\ best = <<>>
    /\ res = <<>>
    /\ cost_enode = Num(0)
    /\ cost_out = NoCost
    /\ parsed = NoParse
    /\ iterations = 0
    /\ elapsed = 0
    /\ stop_reason = "None"
    /\ use_multi = FALSE
    /\ multi_runs = 0
    /\ request_file = NoRequest
    /\ child = "none"
    /\ solved_file = File("missing", <<>>)
    /\ no_cycle = FALSE
    /\ filter_after = FALSE
    /\ cycle_removals = 0
    /\ solved_by = "none"
    /\ operand \in Operands
    /\ oracle_dims = [by |-> "none", dims |-> <<>>]

\* the cost model makes the dimension list of the operand with one of its
\* two functions
DimsCall ==
    /\ oracle_dims.by = "none"
    /\ \E by \in {"tensor_data_to_shape_vec", "dim_to_i64_vec"} :
          oracle_dims' = [by |-> by,
                          dims |-> IF by = "dim_to_i64_vec"
                                   THEN dim_to_i64_vec(operand)
                                   ELSE tensor_data_to_shape_vec(operand)]
    /\ UNCHANGED <<pc, abort, egraph, blacklist_nodes, root, n_rewrites, operand>>
    /\ UNCHANGED BuilderVars
    /\ UNCHANGED ExtractVars
    /\ UNCHANGED RunnerVars
    /\ UNCHANGED SolverVars
    /\ UNCHANGED FilterVars
    /\ UNCHANGED TmpVars

SpecDims == DimsInit /\ [][DimsCall]_vars

\* C29: the dimension list handed to the oracle has exactly n_dim entries,
\* equal in order to the operand's first n_dim dimensions.
C29_DimsAreFirstNDim ==
    oracle_dims.by # "none" =>
        /\ Len(oracle_dims.dims) = operand.n_dim
        /\ \A k \in 1..operand.n_dim : oracle_dims.dims[k] = operand.shape[k]


(***************************************************************************)
(* The shape of a transpose                                                *)
(***************************************************************************)
\* the entries of the Vec node at index v of the expression
VecEntries(expr, v) == [k \in 1..Len(At(expr, v).ch) |-> At(expr, At(expr, v).ch[k]).val[1]]

\* the handle out is the input handle in permuted by perm
Transposed(out, in, perm) ==
    /\ out.n_dim = in.n_dim
    /\ \A i \in 1..MAX_DIM :
          out.shape[i] = IF i <= in.n_dim THEN in.shape[perm[i] + 1] ELSE 0

\* C30: the handle transpose_op returns for an input handle and a
\* permutation of 0..n_dim-1 has the input's n_dim, and its shape is
\* out[i] = in[perm[i]] for i < n_dim and zero beyond.
C30_TransposeShape ==
    \A k \in DOMAIN tensorinfo_map :
        At(rec_expr, k).op = "TransposeOp" =>
           Transposed(tensorinfo_map[k], tensorinfo_map[At(rec_expr, k).ch[1]],
                      VecEntries(rec_expr, At(rec_expr, k).ch[2]))

\* transpose_op has returned the handle of a rank-3 input permuted by [1, 2, 0]
C30_Witness ==
    \E k \in DOMAIN tensorinfo_map :
        /\ At(rec_expr, k).op = "TransposeOp"
        /\ VecEntries(rec_expr, At(rec_expr, k).ch[2]) = <<1, 2, 0>>
        /\ tensorinfo_map[k].shape = <<3, 4, 2, 0, 0, 0, 0, 0>>

====
